---- MODULE Spec2Model ----
(***************************************************************************)
(* Model of the memU ingestion pipeline: the run-lock of the auto_sync     *)
(* worker, the sync cycle (sync_once) and the session converter (convert). *)
(*                                                                         *)
(* Abstractions.  The session file is a sequence of bytes; a line is one   *)
(* or two content bytes followed by NL.  A part path is the part index of  *)
(* the single main session.  A SHA-256 of a byte range is the byte range   *)
(* itself (an injective hash).  Time is a natural number of seconds.       *)
(***************************************************************************)
EXTENDS Integers, Sequences, FiniteSets, TLC

\* ---------------------------------------------------------------- bounds
NProcs == 3          \* worker processes (pids) that may ever be started
MaxCycles == 2       \* worker runs in the serial specification
MaxLines == 3        \* lines ever appended to the session file
MaxTicks == 1        \* clock ticks in the serial specification
MaxRateLimits == 6   \* consecutive rate-limited cycles followed by the backoff specification
MaxPolls == 2        \* poll ticks of the watcher's main loop after its start
MaxVersion == 5      \* highest version number of a state file found on disk
MaxDocs == 2         \* markdown files under the configured extra paths

\* ------------------------------------------------- program configuration
max_messages == 2            \* MEMU_MAX_MESSAGES_PER_SESSION
FLUSH_IDLE_SECONDS == 60     \* MEMU_FLUSH_IDLE_SECONDS
SAMPLE_BYTES == 4            \* size of the head/tail hash samples
base_backoff_s == 60         \* MEMU_RATE_LIMIT_BACKOFF_SECONDS
max_backoff_s == 900         \* MEMU_RATE_LIMIT_BACKOFF_MAX_SECONDS
TickSeconds == base_backoff_s \* resolution of the modelled clock
debounce_seconds == 5        \* SyncHandler.debounce_seconds
flush_poll_seconds == 60     \* MEMU_FLUSH_POLL_SECONDS
STATE_VERSION == 4           \* version of conversations/state.json

Procs == 1..NProcs
PartIdx == 0..(MaxLines - 1)
Null == -1

\* ----------------------------------------------------------- byte model
NL == 0        \* "\n"
XB == 90       \* a line that parses as JSON but is not an accepted message
PB == 91       \* first chunk of a message written in two chunks
BB == 92       \* bytes that never parse as JSON

Min(a, b) == IF a < b THEN a ELSE b
Max(a, b) == IF a > b THEN a ELSE b

RECURSIVE Pow2(_)
Pow2(n) == IF n <= 0 THEN 1 ELSE 2 * Pow2(n - 1)

\* Python slicing data[a:b] on a 0-based sequence.
Slice(s, a, b) == SubSeq(s, Max(0, a) + 1, Min(Len(s), b))

Msg(k) == [role |-> "user", content |-> k]
SysMsg(l) == [role |-> "system", content |-> l]
AbsentFile == <<[role |-> "absent", content |-> 0]>>
NoSha == <<-1>>

\* json.loads of one line (without its newline): "fail", "skip" (parsed, not
\* an accepted message) or "msg".
ParseKind(c) ==
    IF Len(c) = 1 /\ c[1] \in 1..MaxLines THEN "msg"
    ELSE IF Len(c) = 2 /\ c[1] = PB /\ c[2] \in 1..MaxLines THEN "msg"
    ELSE IF Len(c) = 1 /\ c[1] = XB THEN "skip"
    ELSE "fail"

ParseMsg(c) == Msg(c[Len(c)])

\* Position (1-based) of the first NL at or after pos, 0 if there is none.
RECURSIVE FindNL(_, _)
FindNL(bytes, pos) ==
    IF pos > Len(bytes) THEN 0
    ELSE IF bytes[pos] = NL THEN pos
    ELSE FindNL(bytes, pos + 1)

\* The readline loop of _read_messages_from_jsonl; off is a byte offset.
RECURSIVE ReadLoop(_, _, _, _)
ReadLoop(bytes, tell, messages, new_offset) ==
    IF tell >= Len(bytes)
    THEN [messages |-> messages, new_offset |-> new_offset]
    ELSE LET e == FindNL(bytes, tell + 1)
             complete_line == e # 0
             after == IF complete_line THEN e ELSE Len(bytes)
             content == SubSeq(bytes, tell + 1, IF complete_line THEN e - 1 ELSE after)
             kind == ParseKind(content)
         IN  IF kind = "fail"
             THEN IF ~complete_line
                  THEN [messages |-> messages, new_offset |-> new_offset]
                  ELSE ReadLoop(bytes, after, messages, after)
             ELSE IF kind = "msg"
                  THEN ReadLoop(bytes, after, Append(messages, ParseMsg(content)), after)
                  ELSE ReadLoop(bytes, after, messages, after)

\* variant: the offset is moved to the end of the file
_read_messages_from_jsonl_to_eof(bytes, start_offset) ==
    [messages |-> ReadLoop(bytes, Max(0, start_offset), <<>>, start_offset).messages,
     new_offset |-> Len(bytes)]

_read_messages_from_jsonl(bytes, start_offset) ==
    ReadLoop(bytes, Max(0, start_offset), <<>>, start_offset)

_sha256_file_sample(bytes, start, length) ==
    Slice(bytes, Max(0, start), Max(0, start) + Max(0, length))

\* ------------------------------------------------------ part/tail files
Payload(part_messages, lang_prefix) ==
    IF lang_prefix # 0 THEN <<SysMsg(lang_prefix)>> \o part_messages ELSE part_messages

_strip_system_prefix(part_messages, lang_prefix) ==
    IF part_messages = <<>> THEN <<>>
    ELSE IF lang_prefix # 0 /\ part_messages[1] = SysMsg(lang_prefix)
         THEN Tail(part_messages)
         ELSE part_messages

\* variant: the staged messages are not read back
_load_tail_messages_empty(tailf, lang_prefix) == <<>>

_load_tail_messages(tailf, lang_prefix) ==
    IF tailf = AbsentFile THEN <<>> ELSE _strip_system_prefix(tailf, lang_prefix)

_write_tail_messages(msgs, lang_prefix) ==
    IF msgs = <<>> THEN AbsentFile ELSE Payload(msgs, lang_prefix)

\* Writes consecutive full chunks of buf as parts starting at index pc.
\* acc = [parts, converted, part_count, buf].
RECURSIVE WriteChunks(_, _)
WriteChunks(acc, lang_prefix) ==
    IF Len(acc.buf) < max_messages THEN acc
    ELSE LET chunk == SubSeq(acc.buf, 1, max_messages)
             new == Payload(chunk, lang_prefix)
             i == acc.part_count
             changed == IF i \in DOMAIN acc.parts THEN acc.parts[i] # new ELSE TRUE
         IN  WriteChunks(
                 [parts |-> IF i \in DOMAIN acc.parts
                            THEN [acc.parts EXCEPT ![i] = new] ELSE acc.parts,
                  converted |-> IF changed THEN Append(acc.converted, i) ELSE acc.converted,
                  part_count |-> i + 1,
                  buf |-> SubSeq(acc.buf, max_messages + 1, Len(acc.buf))],
                 lang_prefix)

\* Writes the whole of buf (non-empty, shorter than a chunk) as one part.
WriteRemainder(acc, lang_prefix) ==
    LET new == Payload(acc.buf, lang_prefix)
        i == acc.part_count
        changed == IF i \in DOMAIN acc.parts THEN acc.parts[i] # new ELSE TRUE
    IN  [parts |-> IF i \in DOMAIN acc.parts
                   THEN [acc.parts EXCEPT ![i] = new] ELSE acc.parts,
         converted |-> IF changed THEN Append(acc.converted, i) ELSE acc.converted,
         part_count |-> i + 1,
         buf |-> <<>>]

\* ------------------------------------------------------------ converter
NoCursor ==
    [has |-> FALSE, inode |-> 0, last_offset |-> 0, last_size |-> 0,
     last_mtime |-> 0, part_count |-> 0, tail_part_messages |-> 0,
     tail_last_activity_ts |-> Null, lang_prefix |-> 0,
     head_sha256 |-> NoSha, tail_sha256 |-> NoSha]

\* variant: the flag is read as set
_is_force_flush_enabled_always(force) == TRUE

_is_force_flush_enabled(force) == force

\* variant: any staged tail is due
_should_idle_flush_eager(tail_count0, last_activity, cur_mtime, force, now_ts) ==
    tail_count0 > 0

_should_idle_flush(tail_count0, last_activity, cur_mtime, force, now_ts) ==
    IF tail_count0 <= 0 THEN FALSE
    ELSE IF _is_force_flush_enabled(force) THEN TRUE
    ELSE LET last_activity_f == IF last_activity = Null THEN cur_mtime ELSE last_activity
         IN  (now_ts - last_activity_f) >= FLUSH_IDLE_SECONDS

\* The early return of convert for an unchanged file (since_ts shortcut).
SinceTsSkip(f, prev, force, now_ts, since_ts) ==
    /\ f.mtime <= since_ts
    /\ (~prev.has \/ Len(f.bytes) <= prev.last_offset)
    /\ ~_should_idle_flush(prev.tail_part_messages, prev.tail_last_activity_ts,
                           f.mtime, force, now_ts)

\* variant: the cursor is never trusted, every call rebuilds
AppendOnly_never(f, prev, lang_prefix) == FALSE

AppendOnly(f, prev, lang_prefix) ==
    LET cur_size == Len(f.bytes)
        same_file == ~(prev.has /\ prev.inode # f.ino)
        a0 == same_file /\ ~(cur_size < prev.last_offset) /\ prev.lang_prefix = lang_prefix
        head_sha == _sha256_file_sample(f.bytes, 0, Min(SAMPLE_BYTES, cur_size))
        tail_start == Max(0, prev.last_offset - SAMPLE_BYTES)
        tail_len == Max(0, Min(SAMPLE_BYTES, prev.last_offset - tail_start))
        tail_sha == _sha256_file_sample(f.bytes, tail_start, tail_len)
    IN  IF a0 /\ prev.last_offset > 0
              /\ (prev.head_sha256 # NoSha \/ prev.tail_sha256 # NoSha)
        THEN ~(\/ (prev.head_sha256 # NoSha /\ head_sha # prev.head_sha256)
               \/ (prev.tail_sha256 # NoSha /\ tail_sha # prev.tail_sha256))
        ELSE a0

NewCursor(f, new_offset, part_count, tail_count, activity, lang_prefix) ==
    LET cur_size == Len(f.bytes)
        tail_start == Max(0, new_offset - SAMPLE_BYTES)
        tail_len == Max(0, Min(SAMPLE_BYTES, new_offset - tail_start))
    IN  [has |-> TRUE, inode |-> f.ino, last_offset |-> new_offset,
         last_size |-> cur_size, last_mtime |-> f.mtime,
         part_count |-> part_count, tail_part_messages |-> tail_count,
         tail_last_activity_ts |-> activity, lang_prefix |-> lang_prefix,
         head_sha256 |-> _sha256_file_sample(f.bytes, 0, Min(SAMPLE_BYTES, cur_size)),
         tail_sha256 |-> _sha256_file_sample(f.bytes, tail_start, tail_len)]

\* Full rebuild from offset 0 (convert, "if not prev or not append_only").
ConvertRebuild(f, prev, parts0, lang_prefix, force, now_ts) ==
    LET read_res == _read_messages_from_jsonl(f.bytes, 0)
        full == WriteChunks([parts |-> parts0, converted |-> <<>>, part_count |-> 0,
                             buf |-> read_res.messages], lang_prefix)
        flush == full.buf # <<>>
                 /\ _should_idle_flush(Len(full.buf), Null, f.mtime, force, now_ts)
        fin == IF flush THEN WriteRemainder(full, lang_prefix) ELSE full
        tail_count == Len(fin.buf)
        new_part_count == fin.part_count
        parts2 == [i \in DOMAIN fin.parts |->
                     IF prev.part_count # 0 /\ new_part_count < prev.part_count
                        /\ i >= new_part_count /\ i < prev.part_count
                     THEN AbsentFile ELSE fin.parts[i]]
    IN  [converted |-> fin.converted,
         parts |-> parts2,
         tailf |-> _write_tail_messages(fin.buf, lang_prefix),
         cursor |-> NewCursor(f, read_res.new_offset, new_part_count, tail_count,
                              IF tail_count > 0 THEN now_ts ELSE Null, lang_prefix)]

\* variant: the finalized messages are left in the tail file
ConvertIdle_keep_tail(f, prev, parts0, tailf0, lang_prefix, force, now_ts) ==
    LET tail_msgs == _load_tail_messages(tailf0, lang_prefix)
        due == _should_idle_flush(prev.tail_part_messages, prev.tail_last_activity_ts,
                                  f.mtime, force, now_ts)
        full == WriteChunks([parts |-> parts0, converted |-> <<>>,
                             part_count |-> prev.part_count, buf |-> tail_msgs],
                            lang_prefix)
        fin == IF full.buf # <<>> THEN WriteRemainder(full, lang_prefix) ELSE full
    IN  IF due /\ tail_msgs # <<>>
        THEN [converted |-> fin.converted, parts |-> fin.parts,
              tailf |-> tailf0,
              cursor |-> [prev EXCEPT !.part_count = fin.part_count]]
        ELSE [converted |-> <<>>, parts |-> parts0, tailf |-> tailf0, cursor |-> prev]

\* _finalize_tail_if_due with is_idle = TRUE, and the caller's cursor update
\* (convert, "if cur_size == prev_offset").
ConvertIdle(f, prev, parts0, tailf0, lang_prefix, force, now_ts) ==
    LET tail_msgs == _load_tail_messages(tailf0, lang_prefix)
        due == _should_idle_flush(prev.tail_part_messages, prev.tail_last_activity_ts,
                                  f.mtime, force, now_ts)
        full == WriteChunks([parts |-> parts0, converted |-> <<>>,
                             part_count |-> prev.part_count, buf |-> tail_msgs],
                            lang_prefix)
        fin == IF full.buf # <<>> THEN WriteRemainder(full, lang_prefix) ELSE full
    IN  IF due /\ tail_msgs # <<>>
        THEN [converted |-> fin.converted, parts |-> fin.parts,
              tailf |-> _write_tail_messages(fin.buf, lang_prefix),
              cursor |-> [prev EXCEPT !.part_count = fin.part_count,
                                      !.tail_part_messages = 0]]
        ELSE [converted |-> <<>>, parts |-> parts0, tailf |-> tailf0, cursor |-> prev]

\* Incremental append path (convert, from "read_res = ..." at prev_offset).
ConvertAppend(f, prev, parts0, tailf0, lang_prefix, force, now_ts) ==
    LET read_res == _read_messages_from_jsonl(f.bytes, prev.last_offset)
        tail_buf == _load_tail_messages(tailf0, lang_prefix) \o read_res.messages
        full == WriteChunks([parts |-> parts0, converted |-> <<>>,
                             part_count |-> prev.part_count, buf |-> tail_buf],
                            lang_prefix)
        did_flush_idle == full.buf # <<>>
                 /\ _should_idle_flush(Len(full.buf), Null, f.mtime, force, now_ts)
        fin == IF did_flush_idle THEN WriteRemainder(full, lang_prefix) ELSE full
        tail_count == Len(fin.buf)
    IN  IF read_res.messages = <<>> /\ read_res.new_offset = prev.last_offset
        THEN [converted |-> <<>>, parts |-> parts0, tailf |-> tailf0, cursor |-> prev]
        ELSE [converted |-> fin.converted, parts |-> fin.parts,
              tailf |-> _write_tail_messages(fin.buf, lang_prefix),
              cursor |-> NewCursor(f, read_res.new_offset, fin.part_count, tail_count,
                                   IF tail_count > 0 THEN prev.tail_last_activity_ts
                                   ELSE Null, lang_prefix)]

\* convert(since_ts): the list of changed part paths and the files it leaves.
convert(f, prev, parts0, tailf0, lang_prefix, force, now_ts, since_ts) ==
    IF SinceTsSkip(f, prev, force, now_ts, since_ts)
    THEN [converted |-> <<>>, parts |-> parts0, tailf |-> tailf0, cursor |-> prev]
    ELSE IF ~prev.has \/ ~AppendOnly(f, prev, lang_prefix)
    THEN ConvertRebuild(f, prev, parts0, lang_prefix, force, now_ts)
    ELSE IF Len(f.bytes) = prev.last_offset
    THEN ConvertIdle(f, prev, parts0, tailf0, lang_prefix, force, now_ts)
    ELSE ConvertAppend(f, prev, parts0, tailf0, lang_prefix, force, now_ts)

\* ---------------------------------------------------------------- state
VARIABLES
    now,            \* wall clock (time.time())
    sess,           \* main session file: [ino, bytes, mtime]
    lang,           \* configured language prefix (0 = none)
    cstate,         \* conversations/state.json: the cursor of the main session
    parts,          \* conversations/<sid>.partNNN.json, by part index
    tailf,          \* conversations/<sid>.tail.tmp.json
    lockf,          \* memu_sync.lock_auto_sync: [exists, owner (creating pid), pid (content)]
    lastSyncFile,   \* last_sync_ts
    pendingFile,    \* pending_ingest.json ("paths")
    backoffFile,    \* pending_backoff.json
    db,             \* memu_resources rows: [url, content]
    pc,             \* position of each worker process
    loc,            \* local variables of each worker process
    wlockf,         \* memu_sync.lock_watch_sync: [exists, owner, pid]
    wpc,            \* position of each watcher process
    wreadpid,       \* the pid a starting watcher has read from the lock file
    handler,        \* the sessions SyncHandler and the poll loop's variables
    thread,         \* position of the watcher's threads in trigger_sync
    tlockf,         \* memu_sync.trigger.lock_auto_sync.py exists
    events,         \* file-system events queued for the observer thread
    stateDoc,       \* conversations/state.json as a document on disk
    loaded,         \* what _load_state returned to the running converter
    docs            \* the docs handler, the docs worker and their files

progVars == <<now, sess, lang, cstate, parts, tailf, lockf, lastSyncFile, pendingFile,
              backoffFile, db, pc, loc>>
watchVars == <<wlockf, wpc, wreadpid, handler, thread, tlockf, events>>
extVars == <<stateDoc, loaded, docs>>
vars == <<now, sess, lang, cstate, parts, tailf, lockf, lastSyncFile, pendingFile,
          backoffFile, db, pc, loc, wlockf, wpc, wreadpid, handler, thread, tlockf,
          events, stateDoc, loaded, docs>>

convFiles == <<cstate, parts, tailf>>
syncFiles == <<lastSyncFile, pendingFile, backoffFile>>
envVars == <<now, sess, lang>>

NoBackoff == [next_retry_ts |-> 0, consecutive_rate_limits |-> 0, reason |-> ""]
NoLock == [exists |-> FALSE, owner |-> 0, pid |-> 0]
NoError == [type |-> "", msg |-> ""]
\* a file that open(path, "w") has created or truncated: zero bytes
EmptyDoc == -2
EmptyFile == <<>>
\* no convert call in progress
NoConv == [converted |-> <<>>, parts |-> [i \in PartIdx |-> AbsentFile],
           tailf |-> AbsentFile, cursor |-> NoCursor]

\* conversations/state.json: no file, a file that is not JSON, a JSON value
\* that is not an object, or an object with an optional "version" and an
\* optional "sessions" map (here: the cursors it holds, at most the main one)
MissingDoc == [kind |-> "missing", version |-> Null, has_sessions |-> FALSE, sessions |-> <<>>]
CorruptDoc == [kind |-> "corrupt", version |-> Null, has_sessions |-> FALSE, sessions |-> <<>>]
ArrayDoc == [kind |-> "array", version |-> Null, has_sessions |-> FALSE, sessions |-> <<>>]
\* _load_state has not been called
NotLoaded == [version |-> 0, sessions |-> <<>>]

\* markdown files that may exist under the extra paths, by sorted path
DocFiles == 1..MaxDocs

\* the docs worker is not running
NoDocsRun == [mode |-> "none", files_to_ingest |-> <<>>, ok |-> 0, fail |-> 0, skipped |-> 0]

\* no watcher, no markdown file, empty data directory.  elapsed is
\* min(time.time() - last_run, debounce_seconds) of the docs SyncHandler
InitDocs == [disk |-> {}, resources |-> {}, marker |-> FALSE, watcher |-> "down",
             elapsed |-> debounce_seconds, queued |-> {}, run |-> NoDocsRun]

InitLoc ==
    [force |-> FALSE, readpid |-> 0, last_sync |-> 0, sync_start_ts |-> 0,
     pending_paths |-> <<>>, converted_paths |-> <<>>, merged |-> <<>>,
     backoff |-> NoBackoff, now_ts |-> 0, i |-> 1, remaining |-> <<>>,
     ok |-> 0, fail |-> 0, saw_rate_limit |-> FALSE, e |-> NoError,
     log |-> <<>>, conv |-> NoConv]

FinalPcs == {"idle", "skipped", "done", "dead"}
LockPcs == {"lk_open", "lk_read", "lk_alive", "lk_remove", "lk_retry"}
BodyPcs == {"lk_write", "start", "convert", "tail_write", "state_save", "save_merged",
            "check", "loop",
            "save_remaining", "write_last_sync", "clear_backoff", "arm_backoff",
            "release"}
Live(w) == pc[w] \notin FinalPcs

Threads == {"observer", "main"}
NoHandler == [phase |-> "boot", last_run |-> 0, last_idle_trigger_mtime |-> Null,
              last_poll_tick |-> 0]

Init ==
    /\ now = TickSeconds      \* any time after the epoch
    /\ sess = [ino |-> 1, bytes |-> <<>>, mtime |-> TickSeconds]
    /\ lang = 1
    /\ cstate = NoCursor
    /\ parts = [i \in PartIdx |-> AbsentFile]
    /\ tailf = AbsentFile
    /\ lockf = NoLock
    /\ lastSyncFile = 0
    /\ pendingFile = <<>>
    /\ backoffFile = NoBackoff
    /\ db = {}
    /\ pc = [w \in Procs |-> "idle"]
    /\ loc = [w \in Procs |-> InitLoc]
    /\ wlockf = NoLock
    /\ wpc = [w \in Procs |-> "off"]
    /\ wreadpid = [w \in Procs |-> 0]
    /\ handler = NoHandler
    /\ thread = [t \in Threads |-> "idle"]
    /\ tlockf = FALSE
    /\ events = 0
    /\ stateDoc = MissingDoc
    /\ loaded = NotLoaded
    /\ docs = InitDocs

\* ---------------------------------------------------------- environment
\* time passes
Tick ==
    /\ now < TickSeconds * (1 + MaxTicks)
    /\ now' = now + TickSeconds
    /\ UNCHANGED <<sess, lang, convFiles, lockf, syncFiles, db, pc, loc, watchVars, extVars>>

\* nothing happens until the armed backoff has expired
WaitBackoff ==
    /\ backoffFile.next_retry_ts > now
    /\ backoffFile.consecutive_rate_limits < MaxRateLimits
    /\ \A w \in Procs : ~Live(w)
    /\ now' = backoffFile.next_retry_ts
    /\ UNCHANGED <<sess, lang, convFiles, lockf, syncFiles, db, pc, loc, watchVars, extVars>>

RECURSIVE CountNL(_)
CountNL(bytes) ==
    IF bytes = <<>> THEN 0
    ELSE (IF bytes[1] = NL THEN 1 ELSE 0) + CountNL(Tail(bytes))

\* the agent appends one complete message line to the session file
AppendMessage ==
    /\ CountNL(sess.bytes) < MaxLines
    /\ sess' = [sess EXCEPT !.bytes = @ \o <<CountNL(sess.bytes) + 1, NL>>,
                            !.mtime = now]
    /\ UNCHANGED <<now, lang, convFiles, lockf, syncFiles, db, pc, loc, watchVars, extVars>>

\* ------------------------------------------------------------- run-lock
PidOf(w) == w + 1      \* os.getpid() of worker w (pids of user processes exceed 1)

SetPc(w, p) == pc' = [pc EXCEPT ![w] = p]
SetLoc(w, l) == loc' = [loc EXCEPT ![w] = l]

\* the watcher spawns the worker and waits for it (subprocess.run), so the
\* next worker starts when no worker is live; flush.py sets MEMU_FORCE_FLUSH
StartWorker(w, force) ==
    /\ pc[w] = "idle"
    /\ w <= MaxCycles
    /\ \A v \in Procs : v < w => pc[v] # "idle"
    /\ \A v \in Procs : ~Live(v)
    /\ SetPc(w, "lk_open")
    /\ SetLoc(w, [InitLoc EXCEPT !.force = force])
    /\ UNCHANGED <<envVars, convFiles, lockf, syncFiles, db, watchVars, extVars>>

\* os.open(lock_path, O_CREAT | O_EXCL | O_WRONLY), first attempt
LkOpen(w) ==
    /\ pc[w] = "lk_open"
    /\ IF lockf.exists
       THEN /\ SetPc(w, "lk_read")
            /\ UNCHANGED lockf
       ELSE /\ lockf' = [exists |-> TRUE, owner |-> w, pid |-> 0]
            /\ SetPc(w, "lk_write")
    /\ UNCHANGED <<envVars, convFiles, syncFiles, db, loc, watchVars, extVars>>

\* os.write(fd, pid): the write goes to the file the descriptor was opened on
LkWrite(w) ==
    /\ pc[w] = "lk_write"
    /\ lockf' = IF lockf.exists /\ lockf.owner = w
                THEN [lockf EXCEPT !.pid = PidOf(w)] ELSE lockf
    /\ SetPc(w, "start")
    /\ UNCHANGED <<envVars, convFiles, syncFiles, db, loc, watchVars, extVars>>

\* open(lock_path).read(); int(pid_str)
LkRead(w) ==
    /\ pc[w] = "lk_read"
    /\ IF lockf.exists /\ lockf.pid # 0
       THEN /\ SetPc(w, "lk_alive")
            /\ SetLoc(w, [loc[w] EXCEPT !.readpid = lockf.pid])
       ELSE /\ SetPc(w, "skipped")
            /\ SetLoc(w, InitLoc)
    /\ UNCHANGED <<envVars, convFiles, lockf, syncFiles, db, watchVars, extVars>>

\* variant: every pid is taken for dead
_pid_alive_never(pid) == FALSE

_pid_alive(pid) == IF pid <= 1 THEN FALSE ELSE Live(pid - 1)

\* _pid_alive(pid): a live holder means "already running; skip"
LkAlive(w) ==
    /\ pc[w] = "lk_alive"
    /\ IF _pid_alive(loc[w].readpid)
       THEN /\ SetPc(w, "skipped")
            /\ SetLoc(w, InitLoc)
       ELSE /\ SetPc(w, "lk_remove")
            /\ SetLoc(w, [loc[w] EXCEPT !.readpid = 0])     \* not read again
    /\ UNCHANGED <<envVars, convFiles, lockf, syncFiles, db, watchVars, extVars>>

\* os.remove(lock_path) of the stale lock
LkRemove(w) ==
    /\ pc[w] = "lk_remove"
    /\ lockf' = NoLock
    /\ SetPc(w, "lk_retry")
    /\ UNCHANGED <<envVars, convFiles, syncFiles, db, loc, watchVars, extVars>>

\* the single retry of os.open
LkRetry(w) ==
    /\ pc[w] = "lk_retry"
    /\ IF lockf.exists
       THEN /\ SetPc(w, "skipped")
            /\ SetLoc(w, InitLoc)
            /\ UNCHANGED lockf
       ELSE /\ lockf' = [exists |-> TRUE, owner |-> w, pid |-> 0]
            /\ SetPc(w, "lk_write")
            /\ UNCHANGED loc
    /\ UNCHANGED <<envVars, convFiles, syncFiles, db, watchVars, extVars>>

\* variant: the worker exits without removing its lock file
Release_keep(w) ==
    /\ pc[w] = "release"
    /\ SetPc(w, "done")
    /\ SetLoc(w, InitLoc)
    /\ UNCHANGED <<envVars, convFiles, lockf, syncFiles, db, watchVars, extVars>>

\* _release_lock in the finally clause of sync_once
Release(w) ==
    /\ pc[w] = "release"
    /\ lockf' = NoLock
    /\ SetPc(w, "done")
    /\ SetLoc(w, InitLoc)
    /\ UNCHANGED <<envVars, convFiles, syncFiles, db, watchVars, extVars>>

\* the worker process is killed (SIGKILL, power loss) while it holds the lock:
\* nothing is cleaned up
Crash(w) ==
    /\ pc[w] \in BodyPcs
    /\ SetPc(w, "dead")
    /\ SetLoc(w, InitLoc)
    /\ UNCHANGED <<envVars, convFiles, lockf, syncFiles, db, watchVars, extVars>>

\* ----------------------------------------------------------- sync_once
\* merge of pending and converted paths, first occurrence kept
RECURSIVE Merge(_, _)
\* variant: concatenation without the seen-set
Merge_concat(paths, merged) == merged \o paths

Merge(paths, merged) ==
    IF paths = <<>> THEN merged
    ELSE IF \E k \in 1..Len(merged) : merged[k] = Head(paths)
         THEN Merge(Tail(paths), merged)
         ELSE Merge(Tail(paths), Append(merged, Head(paths)))

resource_exists(resource_url) == \E r \in db : r.url = resource_url

\* text = f"{type(e).__name__}: {e}".lower(), as the set of phrases it contains
Lower(phrase) ==
    CASE phrase = "RateLimitError" -> "ratelimiterror"
      [] phrase = "Error code: 429" -> "error code: 429"
      [] phrase = "HTTP 429" -> "http 429"
      [] phrase = "Rate limit reached" -> "rate limit reached"
      [] phrase = "APIError" -> "apierror"
      [] phrase = "Exception" -> "exception"
      [] phrase = "ConnectionError" -> "connectionerror"
      [] OTHER -> phrase

\* "needle in text" for the phrases of the model
Contains(phrase, needle) ==
    \/ phrase = needle
    \/ phrase = "ratelimiterror" /\ needle = "ratelimit"
    \/ phrase = "rate limit reached" /\ needle = "rate limit"

_is_rate_limited_error(e) ==
    LET text == {Lower(e.type), Lower(e.msg)}
        In(needle) == \E ph \in text : Contains(ph, needle)
    IN  \/ In("ratelimit")
        \/ In("rate limit")
        \/ In("error code: 429")
        \/ In("'code': '1302'")
        \/ In("\"code\": \"1302\"")

\* exceptions the memory service client raises from memorize
Errors ==
    {[type |-> "RateLimitError", msg |-> "Error code: 429"],
     [type |-> "Exception", msg |-> "HTTP 429"],
     [type |-> "APIError", msg |-> "'code': '1302'"],
     [type |-> "Exception", msg |-> "Rate limit reached"],
     [type |-> "ConnectionError", msg |-> "connection reset"]}

\* float(f.read().strip() or "0")
_read_last_sync == IF lastSyncFile = EmptyDoc THEN 0 ELSE lastSyncFile

\* last_sync = _read_last_sync(); sync_start_ts = time.time(); _load_pending_ingest()
SyncStart(w) ==
    /\ pc[w] = "start"
    /\ SetLoc(w, [loc[w] EXCEPT !.last_sync = _read_last_sync,
                                !.sync_start_ts = now,
                                !.pending_paths = pendingFile])
    /\ SetPc(w, "convert")
    /\ UNCHANGED <<envVars, convFiles, lockf, syncFiles, db, watchVars, extVars>>

\* converted_paths = convert(since_ts=last_sync)
DoConvert(w) ==
    /\ pc[w] = "convert"
    /\ LET r == convert(sess, cstate, parts, tailf, lang, loc[w].force, now,
                        loc[w].last_sync)
       IN  /\ cstate' = r.cursor
           /\ parts' = r.parts
           /\ tailf' = r.tailf
           /\ SetLoc(w, [loc[w] EXCEPT !.converted_paths = r.converted,
                                       !.force = FALSE])   \* not read again
    /\ SetPc(w, "save_merged")
    /\ UNCHANGED <<envVars, lockf, syncFiles, db, watchVars, extVars>>

\* variant: the previously pending paths are not merged in
SaveMerged_converted_only(w) ==
    /\ pc[w] = "save_merged"
    /\ LET merged == Merge(loc[w].converted_paths, <<>>)
       IN  /\ pendingFile' = merged
           /\ SetLoc(w, [loc[w] EXCEPT !.merged = merged])
    /\ SetPc(w, "check")
    /\ UNCHANGED <<envVars, convFiles, lockf, lastSyncFile, backoffFile, db, watchVars, extVars>>

\* variant: the merged queue is kept in memory only
SaveMerged_unsaved(w) ==
    /\ pc[w] = "save_merged"
    /\ SetLoc(w, [loc[w] EXCEPT
            !.merged = Merge(loc[w].pending_paths \o loc[w].converted_paths, <<>>)])
    /\ SetPc(w, "check")
    /\ UNCHANGED <<envVars, convFiles, lockf, syncFiles, db, watchVars, extVars>>

\* merge and _save_pending_ingest(merged)
SaveMerged(w) ==
    /\ pc[w] = "save_merged"
    /\ LET merged == Merge(loc[w].pending_paths \o loc[w].converted_paths, <<>>)
       IN  /\ pendingFile' = merged
           /\ SetLoc(w, [loc[w] EXCEPT !.merged = merged])
    /\ SetPc(w, "check")
    /\ UNCHANGED <<envVars, convFiles, lockf, lastSyncFile, backoffFile, db, watchVars, extVars>>

\* variant: next_retry_ts is not consulted
CheckBackoff_ignored(w) ==
    /\ pc[w] = "check"
    /\ SetLoc(w, [loc[w] EXCEPT !.backoff = backoffFile, !.now_ts = now,
                                !.pending_paths = <<>>,
                                !.converted_paths = <<>>])
    /\ IF loc[w].merged = <<>>
       THEN SetPc(w, "write_last_sync")
       ELSE SetPc(w, "loop")
    /\ UNCHANGED <<envVars, convFiles, lockf, syncFiles, db, watchVars, extVars>>

\* backoff = _load_backoff_state(); the backoff test and the empty-queue test
CheckBackoff(w) ==
    /\ pc[w] = "check"
    /\ SetLoc(w, [loc[w] EXCEPT !.backoff = backoffFile, !.now_ts = now,
                                !.pending_paths = <<>>,      \* not read again
                                !.converted_paths = <<>>])
    /\ IF loc[w].merged # <<>> /\ backoffFile.next_retry_ts > now
       THEN SetPc(w, "release")
       ELSE IF loc[w].merged = <<>>
            THEN SetPc(w, "write_last_sync")
            ELSE SetPc(w, "loop")
    /\ UNCHANGED <<envVars, convFiles, lockf, syncFiles, db, watchVars, extVars>>

InLoop(w) == pc[w] = "loop" /\ loc[w].i <= Len(loc[w].merged)
Cur(w) == loc[w].merged[loc[w].i]

\* resource_exists(p, user_id): "skip existing"
IngestSkip(w) ==
    /\ InLoop(w)
    /\ resource_exists(Cur(w))
    /\ SetLoc(w, [loc[w] EXCEPT !.i = @ + 1, !.e = NoError,
                                !.log = Append(@, <<"skip existing", Cur(w)>>)])
    /\ UNCHANGED <<envVars, convFiles, lockf, syncFiles, db, pc, watchVars, extVars>>

\* service.memorize(resource_url=p) returns: the resource row is stored
IngestOk(w) ==
    /\ InLoop(w)
    /\ ~resource_exists(Cur(w))
    /\ parts[Cur(w)] # AbsentFile
    /\ db' = db \cup {[url |-> Cur(w), content |-> parts[Cur(w)]]}
    /\ SetLoc(w, [loc[w] EXCEPT !.i = @ + 1, !.ok = @ + 1, !.e = NoError,
                                !.log = Append(@, <<"ingest", Cur(w)>>)])
    /\ UNCHANGED <<envVars, convFiles, lockf, syncFiles, pc, watchVars, extVars>>

\* variant: a timed-out path is not appended to remaining
IngestTimeout_dropped(w) ==
    /\ InLoop(w)
    /\ ~resource_exists(Cur(w))
    /\ SetLoc(w, [loc[w] EXCEPT !.i = @ + 1, !.fail = @ + 1,
                                !.e = [type |-> "TimeoutError", msg |-> ""],
                                !.log = Append(@, <<"ingest", Cur(w)>>)])
    /\ UNCHANGED <<envVars, convFiles, lockf, syncFiles, db, pc, watchVars, extVars>>

\* asyncio.TimeoutError after timeout_s
IngestTimeout(w) ==
    /\ InLoop(w)
    /\ ~resource_exists(Cur(w))
    /\ SetLoc(w, [loc[w] EXCEPT !.i = @ + 1, !.fail = @ + 1,
                                !.remaining = Append(@, Cur(w)),
                                !.e = [type |-> "TimeoutError", msg |-> ""],
                                !.log = Append(@, <<"ingest", Cur(w)>>)])
    /\ UNCHANGED <<envVars, convFiles, lockf, syncFiles, db, pc, watchVars, extVars>>

\* memorize raises e
IngestError(w, e) ==
    /\ InLoop(w)
    /\ ~resource_exists(Cur(w))
    /\ SetLoc(w, [loc[w] EXCEPT !.i = @ + 1, !.fail = @ + 1,
                                !.remaining = Append(@, Cur(w)),
                                !.saw_rate_limit = @ \/ _is_rate_limited_error(e),
                                !.e = e,
                                !.log = Append(@, <<"ingest", Cur(w)>>)])
    /\ UNCHANGED <<envVars, convFiles, lockf, syncFiles, db, pc, watchVars, extVars>>

\* "sync complete"; _save_pending_ingest(remaining)
\* variant: a cycle with failures that saw no rate limit resets the backoff
SaveRemaining_reset(w) ==
    /\ pc[w] = "loop"
    /\ loc[w].i > Len(loc[w].merged)
    /\ pendingFile' = loc[w].remaining
    /\ SetLoc(w, [loc[w] EXCEPT !.e = NoError])
    /\ IF loc[w].fail = 0
       THEN SetPc(w, "write_last_sync")
       ELSE IF loc[w].saw_rate_limit
            THEN SetPc(w, "arm_backoff")
            ELSE SetPc(w, "clear_backoff")
    /\ UNCHANGED <<envVars, convFiles, lockf, lastSyncFile, backoffFile, db, watchVars, extVars>>

SaveRemaining(w) ==
    /\ pc[w] = "loop"
    /\ loc[w].i > Len(loc[w].merged)
    /\ pendingFile' = loc[w].remaining
    /\ SetLoc(w, [loc[w] EXCEPT !.e = NoError])
    /\ IF loc[w].fail = 0
       THEN SetPc(w, "write_last_sync")
       ELSE IF loc[w].saw_rate_limit
            THEN SetPc(w, "arm_backoff")
            ELSE SetPc(w, "release")
    /\ UNCHANGED <<envVars, convFiles, lockf, lastSyncFile, backoffFile, db, watchVars, extVars>>

\* variant: the cursor is set to the time of the write
WriteLastSync_now(w) ==
    /\ pc[w] = "write_last_sync"
    /\ lastSyncFile' = now
    /\ SetPc(w, "clear_backoff")
    /\ UNCHANGED <<envVars, convFiles, lockf, pendingFile, backoffFile, db, loc, watchVars, extVars>>

\* _write_last_sync(sync_start_ts)
WriteLastSync(w) ==
    /\ pc[w] = "write_last_sync"
    /\ lastSyncFile' = loc[w].sync_start_ts
    /\ SetPc(w, "clear_backoff")
    /\ UNCHANGED <<envVars, convFiles, lockf, pendingFile, backoffFile, db, loc, watchVars, extVars>>

\* _save_backoff_state({"next_retry_ts": 0.0, "consecutive_rate_limits": 0, ...})
ClearBackoff(w) ==
    /\ pc[w] = "clear_backoff"
    /\ backoffFile' = NoBackoff
    /\ SetPc(w, "release")
    /\ UNCHANGED <<envVars, convFiles, lockf, lastSyncFile, pendingFile, db, loc, watchVars, extVars>>

\* variant: the wait is not capped by max_backoff_s
NextBackoff_uncapped(backoff, now_ts) ==
    LET consecutive_rate_limits == backoff.consecutive_rate_limits + 1
    IN  [next_retry_ts |-> now_ts + base_backoff_s * Pow2(consecutive_rate_limits - 1),
         consecutive_rate_limits |-> consecutive_rate_limits,
         reason |-> "rate_limit"]

\* the backoff document written after a rate-limited cycle
NextBackoff(backoff, now_ts) ==
    LET consecutive_rate_limits == backoff.consecutive_rate_limits + 1
        wait_s == Min(max_backoff_s, base_backoff_s * Pow2(consecutive_rate_limits - 1))
    IN  [next_retry_ts |-> now_ts + wait_s,
         consecutive_rate_limits |-> consecutive_rate_limits,
         reason |-> "rate_limit"]

\* saw_rate_limit: _save_backoff_state with the incremented count
ArmBackoff(w) ==
    /\ pc[w] = "arm_backoff"
    /\ backoffFile' = NextBackoff(loc[w].backoff, now)
    /\ SetPc(w, "release")
    /\ UNCHANGED <<envVars, convFiles, lockf, lastSyncFile, pendingFile, db, loc, watchVars, extVars>>

\* a worker started by hand (python auto_sync.py) while another may be live
StartConcurrent(w) ==
    /\ pc[w] = "idle"
    /\ \A v \in Procs : v < w => pc[v] # "idle"
    /\ SetPc(w, "lk_open")
    /\ SetLoc(w, InitLoc)
    /\ UNCHANGED <<envVars, convFiles, lockf, syncFiles, db, watchVars, extVars>>

\* --------------------------------------------------------- specification
WorkerStep(w) ==
    \/ LkOpen(w) \/ LkWrite(w) \/ LkRead(w) \/ LkAlive(w) \/ LkRemove(w) \/ LkRetry(w)
    \/ SyncStart(w) \/ DoConvert(w) \/ SaveMerged(w) \/ CheckBackoff(w)
    \/ IngestSkip(w) \/ IngestOk(w) \/ IngestTimeout(w)
    \/ (\E e \in Errors : IngestError(w, e))
    \/ SaveRemaining(w) \/ WriteLastSync(w) \/ ClearBackoff(w) \/ ArmBackoff(w)
    \/ Release(w)

Next ==
    \/ Tick
    \/ AppendMessage
    \/ \E w \in Procs, force \in BOOLEAN : StartWorker(w, force)
    \/ \E w \in Procs : WorkerStep(w)
    \/ \E w \in Procs : Crash(w)

Spec == Init /\ [][Next]_vars

\* a statement of the try block of sync_once raises (convert, a save or load
\* of a persisted document, build_service): the statement has no effect and
\* control passes to the finally clause
RaisePcs == {"start", "convert", "save_merged", "check", "loop", "save_remaining",
             "write_last_sync", "clear_backoff", "arm_backoff"}

Raise(w) ==
    /\ pc[w] \in RaisePcs
    /\ SetPc(w, "release")
    /\ UNCHANGED <<envVars, convFiles, lockf, syncFiles, db, loc, watchVars, extVars>>

NextRelease ==
    \/ Next
    \/ \E w \in Procs : Raise(w)

SpecRelease == Init /\ [][NextRelease]_vars

\* the watcher spawns the next worker; the process of a worker that has exited
\* is gone, and its slot stands for the new process
Respawn(w, force) ==
    /\ w = 1
    /\ pc[w] \in {"idle", "done"}
    /\ SetPc(w, "lk_open")
    /\ SetLoc(w, [InitLoc EXCEPT !.force = force])
    /\ UNCHANGED <<envVars, convFiles, lockf, syncFiles, db, watchVars, extVars>>

CycleStep(w) ==
    \/ LkOpen(w) \/ LkWrite(w)
    \/ SyncStart(w) \/ DoConvert(w) \/ SaveMerged(w) \/ CheckBackoff(w)
    \/ IngestSkip(w) \/ IngestOk(w) \/ IngestTimeout(w)
    \/ (\E e \in Errors : IngestError(w, e))
    \/ SaveRemaining(w) \/ WriteLastSync(w) \/ ClearBackoff(w) \/ ArmBackoff(w)
    \/ Release(w)

\* Serial workers, no crash: the clock only advances by waiting for the armed
\* backoff to expire.
NextBackoffCycles ==
    \/ WaitBackoff
    \/ AppendMessage
    \/ \E w \in Procs, force \in BOOLEAN : Respawn(w, force)
    \/ \E w \in Procs : CycleStep(w)

SpecBackoff == Init /\ [][NextBackoffCycles]_vars

\* Workers started at arbitrary times: watcher spawns, manual runs, flush.py.
LockStep(w) ==
    \/ LkOpen(w) \/ LkWrite(w) \/ LkRead(w) \/ LkAlive(w) \/ LkRemove(w) \/ LkRetry(w)
    \/ SyncStart(w) \/ DoConvert(w) \/ SaveMerged(w) \/ CheckBackoff(w)
    \/ WriteLastSync(w) \/ ClearBackoff(w)
    \/ Release(w)

\* The session is idle (no message arrives), so every cycle finds an empty queue.
NextLock ==
    \/ \E w \in Procs : StartConcurrent(w)
    \/ \E w \in Procs : LockStep(w)
    \/ \E w \in Procs : Crash(w)

SpecLock == Init /\ [][NextLock]_vars

\* --------------------------------------------- document writes and crashes
\* The sync cycle with the two writers that open their target for writing
\* (_write_part_json for the tail file, _write_last_sync) taken one system
\* call at a time; the other documents change in the single os.replace of
\* their writer. A worker can be killed between any two steps.

\* the convert call of worker w will open the tail file for writing
TailWriteDue(w) ==
    LET r == convert(sess, cstate, parts, tailf, lang, loc[w].force, now,
                     loc[w].last_sync)
    IN  r.tailf # AbsentFile /\ r.tailf # tailf

\* convert up to open(tail_path, "wb") in _write_part_json: the parts are
\* written, the tail file is empty, state.json is still the old one
ConvertOpenTail(w) ==
    /\ pc[w] = "convert"
    /\ TailWriteDue(w)
    /\ LET r == convert(sess, cstate, parts, tailf, lang, loc[w].force, now,
                        loc[w].last_sync)
       IN  /\ parts' = [i \in PartIdx |->
                            IF r.parts[i] = AbsentFile THEN parts[i] ELSE r.parts[i]]
           /\ tailf' = EmptyFile
           /\ SetLoc(w, [loc[w] EXCEPT !.conv = r, !.force = FALSE])
    /\ SetPc(w, "tail_write")
    /\ UNCHANGED <<envVars, cstate, lockf, syncFiles, db, watchVars, extVars>>

\* f.write(encoded), the removal of stale parts, _save_state; convert returns
ConvertWriteTail(w) ==
    /\ pc[w] = "tail_write"
    /\ tailf' = loc[w].conv.tailf
    /\ parts' = loc[w].conv.parts
    /\ cstate' = loc[w].conv.cursor
    /\ SetLoc(w, [loc[w] EXCEPT !.converted_paths = loc[w].conv.converted,
                                !.conv = NoConv])
    /\ SetPc(w, "save_merged")
    /\ UNCHANGED <<envVars, lockf, syncFiles, db, watchVars, extVars>>

\* open(marker, "w") in _write_last_sync
WriteLastSyncOpen(w) ==
    /\ pc[w] = "write_last_sync"
    /\ lastSyncFile # EmptyDoc
    /\ lastSyncFile' = EmptyDoc
    /\ UNCHANGED <<envVars, convFiles, lockf, pendingFile, backoffFile, db, pc, loc, watchVars, extVars>>

WriteStep(w) ==
    \/ LkOpen(w) \/ LkWrite(w) \/ LkRead(w) \/ LkAlive(w) \/ LkRemove(w) \/ LkRetry(w)
    \/ SyncStart(w)
    \/ (~TailWriteDue(w) /\ DoConvert(w))
    \/ ConvertOpenTail(w) \/ ConvertWriteTail(w)
    \/ SaveMerged(w) \/ CheckBackoff(w)
    \/ IngestSkip(w) \/ IngestOk(w) \/ SaveRemaining(w)
    \/ WriteLastSyncOpen(w)
    \/ (lastSyncFile = EmptyDoc /\ WriteLastSync(w))
    \/ ClearBackoff(w)
    \/ Release(w)

NextWrite ==
    \/ AppendMessage
    \/ \E w \in Procs, force \in BOOLEAN : StartWorker(w, force)
    \/ \E w \in Procs : WriteStep(w)
    \/ \E w \in Procs : Crash(w)

SpecWrite == Init /\ [][NextWrite]_vars

\* ------------------------------------------------ watcher singleton lock
\* watch_sync.py started several times: each process tries the singleton lock
\* memu_sync.lock_watch_sync, runs until SIGINT/SIGTERM, or is killed.
WLive(w) == wpc[w] \notin {"off", "exited", "dead"}

SetWpc(w, p) == wpc' = [wpc EXCEPT ![w] = p]

\* python watch_sync.py
WStart(w) ==
    /\ wpc[w] = "off"
    /\ \A v \in Procs : v < w => wpc[v] # "off"
    /\ SetWpc(w, "w_open")
    /\ UNCHANGED <<progVars, wlockf, wreadpid, handler, thread, tlockf, events, extVars>>

\* fd = os.open(lock_path, O_CREAT | O_EXCL | O_WRONLY)
WOpen(w) ==
    /\ wpc[w] = "w_open"
    /\ IF wlockf.exists
       THEN /\ SetWpc(w, "w_read")
            /\ UNCHANGED wlockf
       ELSE /\ wlockf' = [exists |-> TRUE, owner |-> w, pid |-> 0]
            /\ SetWpc(w, "w_write")
    /\ UNCHANGED <<progVars, wreadpid, handler, thread, tlockf, events, extVars>>

\* os.write(fd, pid); return fd: the watcher holds the lock and runs
WWrite(w) ==
    /\ wpc[w] = "w_write"
    /\ wlockf' = IF wlockf.exists /\ wlockf.owner = w
                 THEN [wlockf EXCEPT !.pid = PidOf(w)] ELSE wlockf
    /\ SetWpc(w, "running")
    /\ UNCHANGED <<progVars, wreadpid, handler, thread, tlockf, events, extVars>>

\* open(lock_path).read(); int(pid_str). A missing file leads to the retry at
\* "except FileNotFoundError"; an empty file (younger than stale_seconds) to
\* "return None" and "Another memU watcher is already running. Exiting."
WRead(w) ==
    /\ wpc[w] = "w_read"
    /\ IF ~wlockf.exists
       THEN SetWpc(w, "w_open") /\ UNCHANGED wreadpid
       ELSE IF wlockf.pid <= 1
       THEN SetWpc(w, "exited") /\ UNCHANGED wreadpid
       ELSE /\ SetWpc(w, "w_alive")
            /\ wreadpid' = [wreadpid EXCEPT ![w] = wlockf.pid]
    /\ UNCHANGED <<progVars, wlockf, handler, thread, tlockf, events, extVars>>

\* os.kill(pid, 0): success is "return None", ProcessLookupError the recovery
WAlive(w) ==
    /\ wpc[w] = "w_alive"
    /\ IF WLive(wreadpid[w] - 1)
       THEN SetWpc(w, "exited")
       ELSE SetWpc(w, "w_remove")
    /\ wreadpid' = [wreadpid EXCEPT ![w] = 0]      \* not read again
    /\ UNCHANGED <<progVars, wlockf, handler, thread, tlockf, events, extVars>>

\* os.remove(lock_path); return _try_acquire_lock(lock_path, ...)
WRemove(w) ==
    /\ wpc[w] = "w_remove"
    /\ wlockf' = NoLock
    /\ SetWpc(w, "w_open")
    /\ UNCHANGED <<progVars, wreadpid, handler, thread, tlockf, events, extVars>>

\* SIGINT or SIGTERM: _shutdown_handler calls _release_lock and exits
WSignal(w) ==
    /\ wpc[w] = "running"
    /\ wlockf' = NoLock
    /\ SetWpc(w, "exited")
    /\ UNCHANGED <<progVars, wreadpid, handler, thread, tlockf, events, extVars>>

\* SIGKILL: the lock file stays
WKill(w) ==
    /\ wpc[w] \in {"w_write", "running"}
    /\ SetWpc(w, "dead")
    /\ UNCHANGED <<progVars, wlockf, wreadpid, handler, thread, tlockf, events, extVars>>

WatcherStep(w) ==
    \/ WStart(w) \/ WOpen(w) \/ WWrite(w) \/ WRead(w) \/ WAlive(w) \/ WRemove(w)
    \/ WSignal(w) \/ WKill(w)

NextWatchLock == \E w \in Procs : WatcherStep(w)

SpecWatchLock == Init /\ [][NextWatchLock]_vars

\* ------------------------------------------------- watcher: trigger_sync
\* One running watcher. Its observer thread handles file-system events of the
\* sessions directory, its main thread makes the initial trigger and then
\* polls for the idle flush; both call trigger_sync of the same SyncHandler,
\* which spawns auto_sync.py (worker 1) and waits for it.
ShortSleep == debounce_seconds - 1
SleepSteps == {ShortSleep, flush_poll_seconds - ShortSleep,
               flush_poll_seconds - 2 * ShortSleep}

\* time passes
Sleep(d) ==
    /\ now + d <= flush_poll_seconds * (1 + MaxPolls)
    /\ (d = ShortSleep) => (now % flush_poll_seconds < 2 * ShortSleep)
    /\ (d # ShortSleep) => ((now + d) % flush_poll_seconds = 0)
    /\ now' = now + d
    /\ UNCHANGED <<sess, lang, convFiles, lockf, syncFiles, db, pc, loc, watchVars, extVars>>

SetThread(t, p) == thread' = [thread EXCEPT ![t] = p]

\* session_handler.trigger_sync(...) before observer.start()
InitialTrigger ==
    /\ handler.phase = "boot"
    /\ handler' = [handler EXCEPT !.phase = "initial"]
    /\ SetThread("main", "ts_debounce")
    /\ UNCHANGED <<progVars, wlockf, wpc, wreadpid, tlockf, events, extVars>>

\* observer.start()
ObserverStart ==
    /\ handler.phase = "initial"
    /\ thread["main"] = "idle"
    /\ handler' = [handler EXCEPT !.phase = "observing"]
    /\ UNCHANGED <<progVars, wlockf, wpc, wreadpid, thread, tlockf, events, extVars>>

\* the agent appends a message line; the observer queues a modified event
WriteSession ==
    /\ CountNL(sess.bytes) < MaxLines
    /\ sess' = [sess EXCEPT !.bytes = @ \o <<CountNL(sess.bytes) + 1, NL>>,
                            !.mtime = now]
    /\ events' = IF handler.phase = "observing" THEN 1 ELSE events
    /\ UNCHANGED <<now, lang, convFiles, lockf, syncFiles, db, pc, loc,
                   wlockf, wpc, wreadpid, handler, thread, tlockf, extVars>>

\* on_modified: the path is the main session file, trigger_sync is entered
OnModified ==
    /\ handler.phase = "observing"
    /\ events > 0
    /\ thread["observer"] = "idle"
    /\ events' = 0
    /\ SetThread("observer", "ts_debounce")
    /\ UNCHANGED <<progVars, wlockf, wpc, wreadpid, handler, tlockf, extVars>>

\* variant: the staged tail is not looked at
_should_run_idle_flush_no_tail(mtime, tail, now_ts) ==
    (now_ts - mtime) >= FLUSH_IDLE_SECONDS

\* idle for flush_idle_seconds and a tail file of at least 10 bytes (an
\* opened, unwritten tail has 0 bytes; a written one holds a message)
_should_run_idle_flush(mtime, tail, now_ts) ==
    IF (now_ts - mtime) < FLUSH_IDLE_SECONDS THEN FALSE
    ELSE IF tail = AbsentFile THEN FALSE
    ELSE IF tail = EmptyFile THEN FALSE
    ELSE TRUE

\* the poll branch of the main loop, up to the call of trigger_sync
Poll ==
    /\ handler.phase = "observing"
    /\ thread["main"] = "idle"
    /\ now % flush_poll_seconds = 0
    /\ now # handler.last_poll_tick
    /\ IF /\ _should_run_idle_flush(sess.mtime, tailf, now)
          /\ sess.mtime # handler.last_idle_trigger_mtime
       THEN /\ handler' = [handler EXCEPT !.last_poll_tick = now,
                                          !.last_idle_trigger_mtime = sess.mtime]
            /\ SetThread("main", "ts_debounce")
       ELSE /\ handler' = [handler EXCEPT !.last_poll_tick = now]
            /\ UNCHANGED thread
    /\ UNCHANGED <<progVars, wlockf, wpc, wreadpid, tlockf, events, extVars>>

\* now = time.time(); if now - self.last_run < self.debounce_seconds: return
TsDebounce(t) ==
    /\ thread[t] = "ts_debounce"
    /\ IF now - handler.last_run < debounce_seconds
       THEN SetThread(t, "idle")
       ELSE SetThread(t, "ts_runlock")
    /\ UNCHANGED <<progVars, wlockf, wpc, wreadpid, handler, tlockf, events, extVars>>

\* an unreadable pid counts as held, a dead pid or a missing file as free
_is_lock_held(lock) ==
    IF ~lock.exists THEN FALSE
    ELSE IF lock.pid = 0 THEN TRUE
    ELSE IF lock.pid > 1 THEN Live(lock.pid - 1)
    ELSE FALSE

\* if _is_lock_held(run_lock): return
TsRunLock(t) ==
    /\ thread[t] = "ts_runlock"
    /\ IF _is_lock_held(lockf)
       THEN SetThread(t, "idle")
       ELSE SetThread(t, "ts_trylock")
    /\ UNCHANGED <<progVars, wlockf, wpc, wreadpid, handler, tlockf, events, extVars>>

\* lock_fd = _try_acquire_lock(lock_name): the trigger lock of a live watcher
\* (this one) is not taken over
TsTryLock(t) ==
    /\ thread[t] = "ts_trylock"
    /\ IF tlockf
       THEN SetThread(t, "idle") /\ UNCHANGED tlockf
       ELSE tlockf' = TRUE /\ SetThread(t, "ts_spawn")
    /\ UNCHANGED <<progVars, wlockf, wpc, wreadpid, handler, events, extVars>>

\* self.last_run = time.time(); subprocess.run starts the worker
TsSpawn(t) ==
    /\ thread[t] = "ts_spawn"
    /\ ~Live(1)
    /\ handler' = [handler EXCEPT !.last_run = now]
    /\ pc' = [pc EXCEPT ![1] = "lk_open"]
    /\ loc' = [loc EXCEPT ![1] = InitLoc]
    /\ SetThread(t, "ts_wait")
    /\ UNCHANGED <<envVars, convFiles, lockf, syncFiles, db,
                   wlockf, wpc, wreadpid, tlockf, events, extVars>>

\* subprocess.run returns; finally: _release_lock(lock_name, lock_fd)
TsWait(t) ==
    /\ thread[t] = "ts_wait"
    /\ pc[1] \in {"done", "skipped"}
    /\ tlockf' = FALSE
    /\ SetThread(t, "idle")
    /\ UNCHANGED <<progVars, wlockf, wpc, wreadpid, handler, events, extVars>>

TriggerStep(t) ==
    \/ TsDebounce(t) \/ TsRunLock(t) \/ TsTryLock(t) \/ TsSpawn(t) \/ TsWait(t)

\* the spawned auto_sync.py: a cycle in which every memorize call succeeds
SpawnedStep(w) ==
    \/ LkOpen(w) \/ LkWrite(w)
    \/ SyncStart(w) \/ DoConvert(w) \/ SaveMerged(w) \/ CheckBackoff(w)
    \/ IngestOk(w) \/ SaveRemaining(w) \/ WriteLastSync(w) \/ ClearBackoff(w)
    \/ Release(w)

NextWatch ==
    \/ \E d \in SleepSteps : Sleep(d)
    \/ InitialTrigger
    \/ ObserverStart
    \/ WriteSession
    \/ OnModified
    \/ Poll
    \/ \E t \in Threads : TriggerStep(t)
    \/ SpawnedStep(1)

SpecWatch == Init /\ [][NextWatch]_vars

\* ------------------------------------------------- converter: _load_state
\* version values of a state object: absent (Null), not a number (0), 1, 2, ...
Versions == {Null} \cup (0..MaxVersion)
StoredCursors ==
    {[NoCursor EXCEPT !.has = TRUE, !.inode = 1, !.last_offset = o, !.last_size = o,
                      !.part_count = p] : o \in 0..MaxLines, p \in 0..1}
SessionsMaps == {<<>>} \cup {<<c>> : c \in StoredCursors}
StateDocs ==
    {MissingDoc, CorruptDoc, ArrayDoc}
    \cup {[kind |-> "object", version |-> v, has_sessions |-> TRUE, sessions |-> m] :
                v \in Versions, m \in SessionsMaps}
    \cup {[kind |-> "object", version |-> v, has_sessions |-> FALSE, sessions |-> <<>>] :
                v \in Versions}

EmptyState == [version |-> STATE_VERSION, sessions |-> <<>>]

\* variant: only the current version is loaded
_load_state_strict(doc) ==
    IF doc.kind = "object" /\ doc.version = STATE_VERSION
    THEN [version |-> STATE_VERSION, sessions |-> doc.sessions]
    ELSE EmptyState

\* json.load raises on a file that is not JSON, s.get raises on a value that
\* is not an object; s.get("sessions", {}) of an object without the key is {}
_load_state(doc) ==
    IF doc.kind = "missing" THEN EmptyState
    ELSE IF doc.kind # "object" THEN EmptyState
    ELSE IF doc.version = 3 /\ STATE_VERSION = 4
         THEN [version |-> STATE_VERSION,
               sessions |-> IF doc.has_sessions THEN doc.sessions ELSE <<>>]
    ELSE IF doc.version # STATE_VERSION THEN EmptyState
    ELSE [version |-> STATE_VERSION,
          sessions |-> IF doc.has_sessions THEN doc.sessions ELSE <<>>]

\* the state file as an earlier release, a crash or an editor left it; the
\* converter that had loaded the old one has exited
WriteStateDoc(d) ==
    /\ d # stateDoc
    /\ stateDoc' = d
    /\ loaded' = NotLoaded
    /\ UNCHANGED <<progVars, watchVars, docs>>

\* state = _load_state() at the start of convert
LoadState ==
    /\ loaded = NotLoaded
    /\ loaded' = _load_state(stateDoc)
    /\ UNCHANGED <<progVars, watchVars, stateDoc, docs>>

NextLoad ==
    \/ \E d \in StateDocs : WriteStateDoc(d)
    \/ LoadState

SpecLoad == Init /\ [][NextLoad]_vars

\* ------------------------------------------------ docs worker and handler
\* sorted(files)
RECURSIVE SortedFiles(_)
SortedFiles(S) ==
    IF S = {} THEN <<>>
    ELSE LET m == CHOOSE x \in S : \A y \in S : x <= y
         IN <<m>> \o SortedFiles(S \ {m})

\* _collect_markdown_files: the changed file if it is one (0 = no
\* MEMU_CHANGED_PATH), else every markdown file under the extra paths
_collect_markdown_files(disk, changed_path) ==
    IF changed_path # 0 THEN SortedFiles(disk \cap {changed_path})
    ELSE SortedFiles(disk)

\* docs_ingest.main up to the ingest loop: an empty list returns at once
DocsMain(d, changed_path) ==
    LET files_to_ingest == _collect_markdown_files(d.disk, changed_path)
    IN IF files_to_ingest = <<>> THEN NoDocsRun
       ELSE [mode |-> IF changed_path # 0 THEN "incremental" ELSE "full-scan",
             files_to_ingest |-> files_to_ingest, ok |-> 0, fail |-> 0, skipped |-> 0]

\* SyncHandler.trigger_sync of the docs handler: dropped inside the debounce
\* window, else last_run is stamped and the worker is started.  The caller
\* waits in subprocess.run until the worker exits
DocsTriggerSync(d, changed_path) ==
    IF d.elapsed < debounce_seconds THEN d
    ELSE [d EXCEPT !.elapsed = 0, !.run = DocsMain(d, changed_path)]

\* watch_sync __main__: the docs handler is created (last_run = 0) and the
\* initial docs sync is triggered unless the full-scan marker exists
DocsWatcherStart ==
    /\ docs.watcher = "down"
    /\ LET d == [docs EXCEPT !.watcher = "initial", !.elapsed = debounce_seconds]
       IN docs' = IF docs.marker THEN d ELSE DocsTriggerSync(d, 0)
    /\ UNCHANGED <<progVars, watchVars, stateDoc, loaded>>

\* observer.start() once the initial docs sync has returned
DocsObserverStart ==
    /\ docs.watcher = "initial"
    /\ docs.run = NoDocsRun
    /\ docs' = [docs EXCEPT !.watcher = "observing"]
    /\ UNCHANGED <<progVars, watchVars, stateDoc, loaded>>

\* the watcher is stopped; its queued events are lost
DocsWatcherStop ==
    /\ docs.watcher = "observing"
    /\ docs.run = NoDocsRun
    /\ docs' = [docs EXCEPT !.watcher = "down", !.queued = {}]
    /\ UNCHANGED <<progVars, watchVars, stateDoc, loaded>>

\* a markdown file is created or modified; a started observer queues the event
DocsWrite(f) ==
    /\ docs' = [docs EXCEPT !.disk = @ \cup {f},
                            !.queued = IF docs.watcher = "observing" THEN @ \cup {f} ELSE @]
    /\ UNCHANGED <<progVars, watchVars, stateDoc, loaded>>

\* on_modified / on_created in the observer thread, which is free only when
\* no worker it started is running
DocsOnModified(f) ==
    /\ docs.watcher = "observing"
    /\ docs.run = NoDocsRun
    /\ f \in docs.queued
    /\ docs' = DocsTriggerSync([docs EXCEPT !.queued = @ \ {f}], f)
    /\ UNCHANGED <<progVars, watchVars, stateDoc, loaded>>

\* at least debounce_seconds pass
DocsSleep ==
    /\ docs.elapsed < debounce_seconds
    /\ docs' = [docs EXCEPT !.elapsed = debounce_seconds]
    /\ UNCHANGED <<progVars, watchVars, stateDoc, loaded>>

\* one iteration of the ingest loop: an existing resource is skipped, else
\* Memorize either stores the document or raises (error or timeout)
DocsIngest(memorized) ==
    /\ docs.run.files_to_ingest # <<>>
    /\ LET file_path == Head(docs.run.files_to_ingest)
           rest == Tail(docs.run.files_to_ingest)
       IN IF file_path \in docs.resources
          THEN docs' = [docs EXCEPT !.run.files_to_ingest = rest, !.run.skipped = @ + 1]
          ELSE IF memorized
          THEN docs' = [docs EXCEPT !.run.files_to_ingest = rest, !.run.ok = @ + 1,
                                    !.resources = @ \cup {file_path}]
          ELSE docs' = [docs EXCEPT !.run.files_to_ingest = rest, !.run.fail = @ + 1]
    /\ UNCHANGED <<progVars, watchVars, stateDoc, loaded>>

\* end of docs_ingest.main: a full scan writes the marker (a failed write is
\* ignored), the lock is released and the worker exits
DocsComplete(written) ==
    /\ docs.run.mode # "none"
    /\ docs.run.files_to_ingest = <<>>
    /\ docs' = [docs EXCEPT !.marker = IF docs.run.mode = "full-scan" /\ written THEN TRUE ELSE @,
                            !.run = NoDocsRun]
    /\ UNCHANGED <<progVars, watchVars, stateDoc, loaded>>

NextDocs ==
    \/ DocsWatcherStart
    \/ DocsObserverStart
    \/ DocsWatcherStop
    \/ \E f \in DocFiles : DocsWrite(f)
    \/ \E f \in DocFiles : DocsOnModified(f)
    \/ DocsSleep
    \/ \E memorized \in BOOLEAN : DocsIngest(memorized)
    \/ \E written \in BOOLEAN : DocsComplete(written)

SpecDocs == Init /\ [][NextDocs]_vars

\* ------------------------------------------- converter specification
\* The converter alone: convert() called again and again (by sync_once with
\* since_ts = last_sync, or by "python convert_sessions.py" with no since_ts)
\* while the agent writes, rotates, truncates or edits the session file, the
\* clock advances and the output language is reconfigured.
EndsComplete(bytes) == IF bytes = <<>> THEN TRUE ELSE bytes[Len(bytes)] = NL

\* the first write of a line whose newline is not yet on disk: half a message
\* (PB), garbage (BB), or a whole JSON message without its newline
AppendChunk(b) ==
    /\ CountNL(sess.bytes) < MaxLines
    /\ EndsComplete(sess.bytes)
    /\ sess' = [sess EXCEPT !.bytes = @ \o <<b>>, !.mtime = now]
    /\ UNCHANGED <<now, lang, convFiles, lockf, syncFiles, db, pc, loc, watchVars, extVars>>

\* the rest of the line arrives
FinishLine ==
    /\ ~EndsComplete(sess.bytes)
    /\ sess' = [sess EXCEPT
            !.bytes = @ \o (IF @[Len(@)] = PB
                            THEN <<CountNL(@) + 1, NL>> ELSE <<NL>>),
            !.mtime = now]
    /\ UNCHANGED <<now, lang, convFiles, lockf, syncFiles, db, pc, loc, watchVars, extVars>>

\* mv + touch: a new, empty file takes the place of the session file
Rotate ==
    /\ sess.bytes # <<>>
    /\ sess' = [ino |-> 3 - sess.ino, bytes |-> <<>>, mtime |-> now]
    /\ UNCHANGED <<now, lang, convFiles, lockf, syncFiles, db, pc, loc, watchVars, extVars>>

\* the file is cut to its first n bytes
Truncate(n) ==
    /\ n < Len(sess.bytes)
    /\ n % 2 = 0           \* at a line boundary (whole-message lines are 2 bytes)
    /\ sess' = [sess EXCEPT !.bytes = SubSeq(@, 1, n), !.mtime = now]
    /\ UNCHANGED <<now, lang, convFiles, lockf, syncFiles, db, pc, loc, watchVars, extVars>>

\* a message line is overwritten in place by a line of the same length that
\* is no accepted message
EditInPlace(j) ==
    /\ j \in 1..Len(sess.bytes)
    /\ sess.bytes[j] \in 1..MaxLines
    /\ sess' = [sess EXCEPT !.bytes[j] = XB, !.mtime = now]
    /\ UNCHANGED <<now, lang, convFiles, lockf, syncFiles, db, pc, loc, watchVars, extVars>>

\* MEMU_OUTPUT_LANG is reconfigured (0: "auto", no prefix)
Langs == {0, 1, 2}
SetLang(l) ==
    /\ l # lang
    /\ lang' = l
    /\ UNCHANGED <<now, sess, convFiles, lockf, syncFiles, db, pc, loc, watchVars, extVars>>

\* since_ts: none (python convert_sessions.py), or the last_sync of sync_once,
\* a clock value not after now; only its order to the file's mtime is read
SinceHints == {Null, now}

\* a process is started that will call convert(since_ts)
ConvertStart(w, force, since_ts) ==
    /\ w = 1
    /\ pc[w] = "idle"
    /\ SetPc(w, "convert")
    /\ SetLoc(w, [InitLoc EXCEPT !.force = force, !.last_sync = since_ts])
    /\ UNCHANGED <<envVars, convFiles, lockf, syncFiles, db, watchVars, extVars>>

\* convert(since_ts) runs; the caller holds the returned paths
ConvertCall(w) ==
    /\ pc[w] = "convert"
    /\ LET r == convert(sess, cstate, parts, tailf, lang, loc[w].force, now,
                        loc[w].last_sync)
       IN  /\ cstate' = r.cursor
           /\ parts' = r.parts
           /\ tailf' = r.tailf
           /\ SetLoc(w, [loc[w] EXCEPT !.converted_paths = r.converted])
    /\ SetPc(w, "save_merged")
    /\ UNCHANGED <<envVars, lockf, syncFiles, db, watchVars, extVars>>

\* the process that called convert ends
ConvertExit(w) ==
    /\ w = 1
    /\ pc[w] = "save_merged"
    /\ SetPc(w, "idle")
    /\ SetLoc(w, InitLoc)
    /\ UNCHANGED <<envVars, convFiles, lockf, syncFiles, db, watchVars, extVars>>

ConvertStep ==
    \/ \E w \in Procs, force \in BOOLEAN, since_ts \in SinceHints :
            ConvertStart(w, force, since_ts)
    \/ \E w \in Procs : ConvertCall(w)
    \/ \E w \in Procs : ConvertExit(w)

\* convert up to its last file write: the parts and the tail are on disk, the
\* stale parts are removed, the cursor is not saved yet
ConvertFiles(w) ==
    /\ pc[w] = "convert"
    /\ LET r == convert(sess, cstate, parts, tailf, lang, loc[w].force, now,
                        loc[w].last_sync)
       IN  /\ parts' = r.parts
           /\ tailf' = r.tailf
           /\ SetLoc(w, [loc[w] EXCEPT !.conv = r])
    /\ SetPc(w, "state_save")
    /\ UNCHANGED <<envVars, cstate, lockf, syncFiles, db, watchVars, extVars>>

\* _save_state(state); return converted
ConvertSaveState(w) ==
    /\ pc[w] = "state_save"
    /\ cstate' = loc[w].conv.cursor
    /\ SetLoc(w, [loc[w] EXCEPT !.converted_paths = loc[w].conv.converted,
                                !.conv = NoConv])
    /\ SetPc(w, "save_merged")
    /\ UNCHANGED <<envVars, parts, tailf, lockf, syncFiles, db, watchVars, extVars>>

\* the process is killed before _save_state
ConvertCrash(w) ==
    /\ w = 1
    /\ pc[w] = "state_save"
    /\ SetPc(w, "idle")
    /\ SetLoc(w, InitLoc)
    /\ UNCHANGED <<envVars, convFiles, lockf, syncFiles, db, watchVars, extVars>>

\* Whole messages appended between converter runs that may be killed before
\* the cursor is saved.
NextSave ==
    \/ (pc[1] = "idle" /\ AppendMessage)
    \/ \E w \in Procs, force \in BOOLEAN, since_ts \in SinceHints :
            ConvertStart(w, force, since_ts)
    \/ \E w \in Procs : ConvertFiles(w)
    \/ \E w \in Procs : ConvertSaveState(w)
    \/ \E w \in Procs : ConvertCrash(w)
    \/ \E w \in Procs : ConvertExit(w)

SpecSave == Init /\ [][NextSave]_vars

\* Append-only session file: whole messages, and lines that reach the disk in
\* two writes, between converter runs.
NextAppend ==
    \/ (pc[1] = "idle" /\ Tick)
    \/ (pc[1] = "idle" /\ EndsComplete(sess.bytes) /\ AppendMessage)
    \/ (pc[1] = "idle" /\ \E b \in {PB, BB, CountNL(sess.bytes) + 1} : AppendChunk(b))
    \/ (pc[1] = "idle" /\ FinishLine)
    \/ ConvertStep

SpecAppend == Init /\ [][NextAppend]_vars

\* Whole messages only, but the file is also rotated, truncated and edited in
\* place, and the output language is reconfigured; the clock stands still.
NextConvert ==
    \/ (pc[1] = "idle" /\ AppendMessage)
    \/ (pc[1] = "idle" /\ Rotate)
    \/ (pc[1] = "idle" /\ \E n \in 0..(2 * MaxLines) : Truncate(n))
    \/ (pc[1] = "idle" /\ \E j \in 1..(2 * MaxLines) : EditInPlace(j))
    \/ (pc[1] = "idle" /\ \E l \in Langs : SetLang(l))
    \/ ConvertStep

SpecConvert == Init /\ [][NextConvert]_vars

\* ================================================================ claims
SyncPcs == {"start", "convert", "save_merged", "check", "loop",
            "write_last_sync", "clear_backoff", "arm_backoff"}
InBody(w) == pc[w] \in SyncPcs

InSeq(x, seq) == \E k \in 1..Len(seq) : seq[k] = x
NoDup(seq) == \A j, k \in 1..Len(seq) : seq[j] = seq[k] => j = k
LogPaths(log) == [k \in 1..Len(log) |-> log[k][2]]

\* the cycle of w returned at "backoff active" (valid once the backoff is loaded)
BackoffSkip(w) ==
    loc[w].merged # <<>> /\ loc[w].backoff.next_retry_ts > loc[w].now_ts
\* the cycle of w entered the ingest loop
LoopRan(w) == loc[w].merged # <<>> /\ ~BackoffSkip(w)
\* the cycle of w ends with fail = 0 (an empty queue included)
FullSuccess(w) == ~BackoffSkip(w) /\ loc[w].fail = 0
AfterLoopPcs == {"write_last_sync", "clear_backoff", "arm_backoff", "release"}

\* C1: at most one worker at a time holds the run-lock and executes the body
\* of sync_once, for every interleaving of acquisition attempts, stale-lock
\* recoveries included.
C1_MutualExclusion ==
    \A v, w \in Procs : (InBody(v) /\ InBody(w)) => v = w

\* C2: a cycle that ends with fail = 0 has set last_sync_ts to the
\* sync_start_ts it captured before calling convert and has reset the backoff
\* document; last_sync_ts changes in no other step.
C2_CursorAdvance ==
    [][/\ \A w \in Procs :
            (pc[w] = "release" /\ FullSuccess(w))
                => (lastSyncFile = loc[w].sync_start_ts /\ backoffFile = NoBackoff)
       /\ \A w \in Procs :
            (pc[w] = "start" /\ pc'[w] = "convert") => loc'[w].sync_start_ts = now
       /\ \A w \in Procs :
            (pc[w] \in SyncPcs \ {"start"} /\ pc'[w] \in SyncPcs \cup {"release"})
                => loc'[w].sync_start_ts = loc[w].sync_start_ts
       /\ (lastSyncFile' # lastSyncFile)
            => \E w \in Procs : /\ pc[w] = "write_last_sync"
                                /\ FullSuccess(w)
                                /\ lastSyncFile' = loc[w].sync_start_ts
      ]_vars

C2_Witness ==
    \E w \in Procs : /\ pc[w] = "release"
                     /\ FullSuccess(w)
                     /\ loc[w].ok > 0
                     /\ loc[w].sync_start_ts < now
                     /\ loc[w].last_sync < loc[w].sync_start_ts
                     /\ lastSyncFile = loc[w].sync_start_ts

\* C3: after the ingest loop the persisted pending queue holds exactly the
\* paths whose memorize call timed out or raised, in the order of the merged
\* queue, and a cycle with a failure leaves last_sync_ts as it found it.
C3_FailedRetained ==
    \A w \in Procs :
        (pc[w] \in AfterLoopPcs /\ LoopRan(w))
            => /\ pendingFile = SelectSeq(loc[w].merged, LAMBDA p : ~resource_exists(p))
               /\ Len(pendingFile) = loc[w].fail
               /\ loc[w].ok + loc[w].fail = Len(SelectSeq(loc[w].log,
                                                 LAMBDA en : en[1] = "ingest"))
               /\ (loc[w].fail > 0 => lastSyncFile = loc[w].last_sync)

C3_Witness ==
    \E w \in Procs : /\ pc[w] = "release"
                     /\ LoopRan(w)
                     /\ loc[w].fail >= 2
                     /\ loc[w].last_sync < loc[w].sync_start_ts
                     /\ Len(pendingFile) = 2 /\ pendingFile[1] < pendingFile[2]

\* C4: a path leaves the persisted pending queue only when its resource
\* exists, through every crash and restart; the restarted cycle gives every
\* queued path a lookup, memorizes only paths without a resource, and no
\* resource url is memorized a second time.
C4_CrashSafe ==
    [][/\ \A k \in 1..Len(pendingFile) :
            InSeq(pendingFile[k], pendingFile') \/ \E r \in db' : r.url = pendingFile[k]
       /\ \A r \in db' \ db : ~resource_exists(r.url)
       /\ \A w \in Procs :
            (pc[w] = "loop" /\ pc'[w] # "dead")
                => /\ LogPaths(loc'[w].log) = SubSeq(loc[w].merged, 1, loc'[w].i - 1)
                   /\ \A k \in 1..Len(loc'[w].log) :
                        loc'[w].log[k][1] = "skip existing"
                            => resource_exists(loc'[w].log[k][2])
      ]_vars

C4_Witness ==
    \E v, w \in Procs :
        /\ pc[v] = "dead"
        /\ pc[w] = "loop"
        /\ InSeq(<<"skip existing", 0>>, loc[w].log)
        /\ InSeq(<<"ingest", 1>>, loc[w].log)
        /\ loc[w].ok = 1

\* C5: the merged queue (pending paths, then converted paths) is the persisted
\* pending queue before the first existence lookup or memorize call, and stays
\* so during the ingest loop.
C5_PersistBeforeIngest ==
    \A w \in Procs :
        /\ pc[w] = "check"
            => /\ loc[w].log = <<>>
               /\ pendingFile = loc[w].merged
               /\ \A p \in PartIdx :
                    InSeq(p, loc[w].merged)
                        <=> (InSeq(p, loc[w].pending_paths) \/ InSeq(p, loc[w].converted_paths))
        /\ pc[w] = "loop" => pendingFile = loc[w].merged

C5_Witness ==
    \E w \in Procs : /\ pc[w] = "loop"
                     /\ loc[w].log = <<>>
                     /\ Len(loc[w].merged) = 2
                     /\ pendingFile = loc[w].merged

\* C6: the paths looked up in a cycle are the merged queue in order (pending
\* paths, then the converted paths not already pending, each once); a path is
\* skipped only if its resource exists and every other path is dispatched.
C6_DispatchOrder ==
    \A w \in Procs :
        /\ pc[w] = "check"
            => /\ NoDup(loc[w].merged)
               /\ loc[w].merged =
                    loc[w].pending_paths \o
                    SelectSeq(loc[w].converted_paths,
                              LAMBDA p : ~InSeq(p, loc[w].pending_paths))
        /\ (pc[w] \in AfterLoopPcs \cup {"loop"} /\ LoopRan(w))
            => /\ NoDup(loc[w].merged)
               /\ LogPaths(loc[w].log) = SubSeq(loc[w].merged, 1, loc[w].i - 1)
               /\ pc[w] # "loop" => loc[w].i = Len(loc[w].merged) + 1
               /\ \A k \in 1..Len(loc[w].log) :
                    /\ loc[w].log[k][1] = "skip existing"
                            => resource_exists(loc[w].log[k][2])
                    /\ (loc[w].log[k][1] = "ingest" /\ resource_exists(loc[w].log[k][2]))
                            => \E r \in db : /\ r.url = loc[w].log[k][2]
                                             /\ r.content = parts[r.url]

C6_Witness ==
    \E w \in Procs : /\ pc[w] = "release"
                     /\ LoopRan(w)
                     /\ loc[w].log = <<<<"skip existing", 0>>, <<"ingest", 1>>>>

\* C7: a cycle that finds a non-empty merged queue and next_retry_ts > now
\* makes no lookup and no memorize call, leaves last_sync_ts and the backoff
\* document as they were, and keeps the merged queue persisted.
C7_BackoffSkip ==
    \A w \in Procs :
        (pc[w] = "release" /\ BackoffSkip(w))
            => /\ loc[w].log = <<>>
               /\ loc[w].ok = 0 /\ loc[w].fail = 0
               /\ lastSyncFile = loc[w].last_sync
               /\ backoffFile = loc[w].backoff
               /\ pendingFile = loc[w].merged

C7_Witness ==
    \E w \in Procs : pc[w] = "release" /\ BackoffSkip(w)

\* the wait the backoff schedule gives the c-th consecutive rate-limited cycle
ScheduledWait(c) ==
    CASE c = 1 -> 60 [] c = 2 -> 120 [] c = 3 -> 240 [] c = 4 -> 480 [] OTHER -> 900

\* C8: a cycle with a failure recognized as a rate limit writes the loaded
\* count plus one and next_retry_ts = now + min(max_backoff_s,
\* base_backoff_s * 2^(count-1)): waits of 60, 120, 240, 480, 900, 900 s, never
\* more than max_backoff_s.
C8_BackoffSchedule ==
    \A w \in Procs :
        (pc[w] = "release" /\ LoopRan(w) /\ loc[w].fail > 0 /\ loc[w].saw_rate_limit)
            => /\ backoffFile.consecutive_rate_limits
                    = loc[w].backoff.consecutive_rate_limits + 1
               /\ backoffFile.next_retry_ts
                    = now + ScheduledWait(backoffFile.consecutive_rate_limits)
               /\ backoffFile.next_retry_ts - now <= max_backoff_s

C8_Witness ==
    \E w \in Procs : /\ pc[w] = "release"
                     /\ loc[w].saw_rate_limit
                     /\ loc[w].backoff.consecutive_rate_limits = 5
                     /\ backoffFile.consecutive_rate_limits = 6
                     /\ backoffFile.next_retry_ts = now + 900

\* the failures the rate-limit test is meant to recognize: HTTP 429, provider
\* code 1302, and the "rate limit" / "ratelimit" phrases
RateLimitFailures ==
    {[type |-> "RateLimitError", msg |-> "Error code: 429"],
     [type |-> "Exception", msg |-> "HTTP 429"],
     [type |-> "APIError", msg |-> "'code': '1302'"],
     [type |-> "Exception", msg |-> "Rate limit reached"]}

\* C9: a memorize failure that is an HTTP 429, a provider code 1302 or carries
\* a "rate limit" / "ratelimit" phrase is recorded as a rate limit, so the
\* cycle that saw it arms the backoff.
C9_RateLimitRecognized ==
    \A w \in Procs :
        (pc[w] = "loop" /\ loc[w].e \in RateLimitFailures) => loc[w].saw_rate_limit

\* C10: a worker that read the pid of a live process from the lock returns
\* without reaching convert, and its acquisition attempt changes no converter
\* file, no sync file, no resource and not the lock.
C10_LiveLockSkips ==
    [][\A w \in Procs :
        /\ (pc[w] = "lk_alive" /\ pc'[w] # pc[w]
                /\ \E v \in Procs : loc[w].readpid = PidOf(v) /\ Live(v))
            => /\ pc'[w] = "skipped"
               /\ UNCHANGED <<convFiles, syncFiles, lockf, db>>
        /\ (pc[w] = "lk_read" /\ pc'[w] # pc[w])
            => /\ pc'[w] \in {"lk_alive", "skipped"}
               /\ UNCHANGED <<convFiles, syncFiles, lockf, db>>
        /\ pc[w] = "skipped" => pc'[w] = "skipped"
      ]_vars

C10_Witness ==
    \E v, w \in Procs : /\ pc[w] = "skipped"
                        /\ InBody(v)
                        /\ lockf.exists /\ lockf.owner = v /\ lockf.pid = PidOf(v)

\* ------------------------------------------------------ converter claims
\* the user/assistant messages of a part or tail file
RoleMsgs(file) == IF file = AbsentFile THEN <<>>
                  ELSE SelectSeq(file, LAMBDA m : m.role = "user")
\* a step in which worker w calls convert
IsConvertCall(w) == pc[w] = "convert" /\ pc'[w] = "save_merged"
\* the idle window has elapsed for the cursor or for the session file
IdleElapsed ==
    \/ now - sess.mtime >= FLUSH_IDLE_SECONDS
    \/ (cstate.tail_last_activity_ts # Null
            /\ now - cstate.tail_last_activity_ts >= FLUSH_IDLE_SECONDS)

\* C11 (as stated): every part below part_count exists and holds exactly
\* max_messages user/assistant messages.
C11_ExactlyMaxMessages ==
    \A i \in PartIdx :
        i < cstate.part_count
            => parts[i] # AbsentFile /\ Len(RoleMsgs(parts[i])) = max_messages

\* C11 (amended): every part below part_count exists, starts with the system
\* prefix of the configured language and holds between 1 and max_messages
\* user/assistant messages; a convert call leaves fewer than max_messages only
\* in the last part it wrote, and only when the force flag is set or the idle
\* window has elapsed.
C11_PartSizes ==
    [][\A w \in Procs : IsConvertCall(w) =>
        \A i \in PartIdx :
            i < cstate'.part_count
                => /\ parts'[i] # AbsentFile
                   /\ parts'[i] = Payload(RoleMsgs(parts'[i]), lang)
                   /\ Len(RoleMsgs(parts'[i])) \in 1..max_messages
                   /\ Len(RoleMsgs(parts'[i])) < max_messages
                        => \/ (parts'[i] = parts[i] /\ i < cstate.part_count)
                           \/ (i = cstate'.part_count - 1
                                  /\ (loc[w].force \/ IdleElapsed))
      ]_vars

C11_Witness ==
    /\ pc[1] = "save_merged"
    /\ cstate.part_count = 2
    /\ Len(RoleMsgs(parts[0])) = max_messages
    /\ Len(RoleMsgs(parts[1])) = 1
    /\ loc[1].converted_paths = <<1>>
    /\ ~loc[1].force

\* C12: while the session file is only appended to and the language is not
\* changed, a convert call neither changes nor removes a part below the
\* part_count of the cursor, and writes parts only at indices from that
\* part_count on.
C12_PartsImmutable ==
    [][\A w \in Procs : IsConvertCall(w) =>
        \A i \in PartIdx :
            /\ (i < cstate.part_count /\ parts[i] # AbsentFile) => parts'[i] = parts[i]
            /\ parts'[i] # parts[i] => i >= cstate.part_count
      ]_vars

\* C13: a convert call moves staged tail messages into a part only as a full
\* chunk of max_messages, or when the idle window has elapsed or the force
\* flag is set; otherwise they stay in the tail file, which holds fewer than
\* max_messages messages; every path convert returns is a finalized part file
\* below part_count, never the tail file.
C13_TailGating ==
    [][\A w \in Procs : IsConvertCall(w) =>
        LET staged == RoleMsgs(tailf)
            Due == loc[w].force \/ IdleElapsed
        IN  /\ \A k \in 1..Len(staged) :
                \/ InSeq(staged[k], RoleMsgs(tailf'))
                \/ \E i \in PartIdx :
                        /\ InSeq(staged[k], RoleMsgs(parts'[i]))
                        /\ Len(RoleMsgs(parts'[i])) = max_messages \/ Due
            /\ \A i \in PartIdx :
                (parts'[i] # parts[i] /\ parts'[i] # AbsentFile)
                    => Len(RoleMsgs(parts'[i])) = max_messages \/ Due
            /\ Len(RoleMsgs(tailf')) < max_messages
            /\ cstate'.tail_part_messages = Len(RoleMsgs(tailf'))
            /\ \A k \in 1..Len(loc'[w].converted_paths) :
                LET p == loc'[w].converted_paths[k]
                IN  p \in PartIdx /\ p < cstate'.part_count /\ parts'[p] # AbsentFile
      ]_vars

C13_Witness ==
    /\ pc[1] = "save_merged"
    /\ ~loc[1].force
    /\ loc[1].converted_paths = <<0>>
    /\ Len(RoleMsgs(parts[0])) = max_messages
    /\ Len(RoleMsgs(tailf)) = 1
    /\ cstate.tail_part_messages = 1
    /\ cstate.part_count = 1

\* C14: the persisted cursor has tail_last_activity_ts non-null if and only
\* if tail_part_messages > 0, after every convert call.
C14_ActivityIffTail ==
    cstate.has => (cstate.tail_last_activity_ts # Null <=> cstate.tail_part_messages > 0)

\* C15: a convert call that adds messages to the staged tail persists
\* tail_last_activity_ts = the time of the call.
C15_ActivityStamped ==
    [][\A w \in Procs :
        (IsConvertCall(w)
            /\ \E k \in 1..Len(RoleMsgs(tailf')) :
                    ~InSeq(RoleMsgs(tailf')[k], RoleMsgs(tailf)))
            => cstate'.tail_last_activity_ts = now
      ]_vars

\* position of the last newline of bytes, 0 if there is none
RECURSIVE LastNL(_, _)
LastNL(bytes, pos) ==
    IF pos = 0 THEN 0 ELSE IF bytes[pos] = NL THEN pos ELSE LastNL(bytes, pos - 1)

\* the end of the last line of bytes that parses or ends with a newline
ConsumableEnd(bytes) ==
    LET nl == LastNL(bytes, Len(bytes))
        rest == SubSeq(bytes, nl + 1, Len(bytes))
    IN  IF rest # <<>> /\ ParseKind(rest) = "fail" THEN nl ELSE Len(bytes)

\* the messages of the lines that end at or before offset o, in file order
\* (the line with CountNL = k - 1 before it carries message k)
RECURSIVE MsgsUpTo(_, _, _)
MsgsUpTo(bytes, o, k) ==
    IF k > MaxLines THEN <<>>
    ELSE (IF \E j \in 1..o : bytes[j] = k THEN <<Msg(k)>> ELSE <<>>)
         \o MsgsUpTo(bytes, o, k + 1)

\* the messages of the parts below n, in index order
RECURSIVE PartMsgs(_, _)
PartMsgs(ps, n) ==
    IF n = 0 THEN <<>> ELSE PartMsgs(ps, n - 1) \o RoleMsgs(ps[n - 1])

\* C16: after a convert call last_offset is the end of a consumed line that
\* parsed or ended with a newline: a trailing line without newline that does
\* not parse is not passed and yields no message, a newline-terminated line
\* that does not parse is passed, and the parts and the tail hold exactly the
\* messages of the lines before last_offset.
C16_OffsetAtLineEnd ==
    [][\A w \in Procs : (IsConvertCall(w) /\ cstate'.has) =>
        LET o == cstate'.last_offset
        IN  /\ o <= Len(sess.bytes)
            /\ \/ o = ConsumableEnd(sess.bytes)
               \/ (loc[w].last_sync # Null /\ cstate.has /\ o = cstate.last_offset
                      /\ o = ConsumableEnd(SubSeq(sess.bytes, 1, o)))
            /\ PartMsgs(parts', cstate'.part_count) \o RoleMsgs(tailf')
                    = MsgsUpTo(sess.bytes, o, 1)
      ]_vars

C16_Witness ==
    /\ pc[1] = "save_merged"
    /\ sess.bytes = <<BB, NL, 2, NL, PB>>
    /\ cstate.last_offset = 4
    /\ RoleMsgs(tailf) = <<Msg(2)>>

\* C17: with no new bytes in the session file, k > 0 messages staged and
\* FLUSH_IDLE_SECONDS or more passed since tail_last_activity_ts, a convert
\* call returns exactly the part at index part_count, which holds exactly the
\* k staged messages, adds 1 to part_count, removes the tail file and sets
\* tail_part_messages to 0.
C17_IdleFlush ==
    [][\A w \in Procs :
        (/\ IsConvertCall(w)
         /\ cstate.has
         /\ Len(sess.bytes) = cstate.last_offset
         /\ cstate.tail_part_messages > 0
         /\ cstate.tail_last_activity_ts # Null
         /\ now - cstate.tail_last_activity_ts >= FLUSH_IDLE_SECONDS)
            => /\ loc'[w].converted_paths = <<cstate.part_count>>
               /\ Len(RoleMsgs(tailf)) = cstate.tail_part_messages
               /\ parts'[cstate.part_count] = Payload(RoleMsgs(tailf), lang)
               /\ \A i \in PartIdx : i # cstate.part_count => parts'[i] = parts[i]
               /\ cstate'.part_count = cstate.part_count + 1
               /\ tailf' = AbsentFile
               /\ cstate'.tail_part_messages = 0
      ]_vars

C17_Witness ==
    /\ pc[1] = "save_merged"
    /\ ~loc[1].force
    /\ loc[1].converted_paths = <<1>>
    /\ cstate.part_count = 2
    /\ Len(RoleMsgs(parts[1])) = 1
    /\ tailf = AbsentFile
    /\ cstate.tail_part_messages = 0
    /\ cstate.last_offset = Len(sess.bytes)
    /\ cstate.tail_last_activity_ts # Null
    /\ now - cstate.tail_last_activity_ts >= FLUSH_IDLE_SECONDS

\* C18: a convert call with the force flag set and at least one message
\* staged finalizes the whole tail: afterwards the tail file is gone,
\* tail_part_messages is 0 and every message that was staged is in a part
\* below part_count, whatever the state of the session file and the since_ts.
C18_ForceFlush ==
    [][\A w \in Procs :
        (/\ IsConvertCall(w)
         /\ loc[w].force
         /\ cstate.has
         /\ cstate.tail_part_messages > 0)
            => /\ tailf' = AbsentFile
               /\ cstate'.tail_part_messages = 0
               /\ \A k \in 1..Len(RoleMsgs(tailf)) :
                    InSeq(RoleMsgs(tailf)[k], PartMsgs(parts', cstate'.part_count))
      ]_vars

\* the cursor no longer matches the session file or the language
RebuildTrigger ==
    /\ cstate.has
    /\ \/ cstate.inode # sess.ino
       \/ Len(sess.bytes) < cstate.last_offset
       \/ cstate.lang_prefix # lang
       \/ /\ cstate.last_offset > 0
          /\ \/ _sha256_file_sample(sess.bytes, 0, Min(SAMPLE_BYTES, Len(sess.bytes)))
                    # cstate.head_sha256
             \/ _sha256_file_sample(sess.bytes,
                                    Max(0, cstate.last_offset - SAMPLE_BYTES),
                                    Min(SAMPLE_BYTES, cstate.last_offset))
                    # cstate.tail_sha256

\* the files a rebuild from offset 0 leaves: floor(N / max_messages) full
\* parts, the other messages staged, no part at or above part_count
RebuiltFrom0 ==
    LET msgs == MsgsUpTo(sess.bytes, Len(sess.bytes), 1)
        full == Len(msgs) \div max_messages
    IN  /\ cstate'.part_count = full
        /\ cstate'.last_offset = Len(sess.bytes)
        /\ \A i \in PartIdx :
            parts'[i] = IF i < full
                        THEN Payload(SubSeq(msgs, i * max_messages + 1,
                                            (i + 1) * max_messages), lang)
                        ELSE AbsentFile
        /\ RoleMsgs(tailf') = SubSeq(msgs, full * max_messages + 1, Len(msgs))
        /\ cstate'.tail_part_messages = Len(RoleMsgs(tailf'))

\* C19: a convert call (force flag unset, session file not idle) that finds the
\* inode changed, the size below last_offset, the language prefix changed or a
\* sample hash different re-reads the file from offset 0, writes
\* floor(N / max_messages) full parts, stages the other messages and leaves
\* no part at an index >= part_count.
C19_RebuildOnMismatch ==
    [][\A w \in Procs :
        (IsConvertCall(w) /\ ~loc[w].force /\ ~IdleElapsed /\ RebuildTrigger)
            => RebuiltFrom0
      ]_vars

\* every element of the file is a message or the prefix of language l, the
\* prefix (when there is one) coming first and only first
HasPrefixOnly(file, l) ==
    /\ (l # 0) => file[1] = SysMsg(l)
    /\ \A k \in 1..Len(file) :
        file[k].role = "system" => (k = 1 /\ file[k] = SysMsg(l))

\* C20: a convert call that finds the language prefix different from the one
\* in the cursor performs a full rebuild; afterwards every part below
\* part_count and the tail file start with the new prefix and hold no element
\* with the old one.
C20_LanguageRebuild ==
    [][\A w \in Procs :
        (IsConvertCall(w) /\ cstate.has /\ cstate.lang_prefix # lang)
            => /\ \A i \in PartIdx :
                    i < cstate'.part_count
                        => parts'[i] # AbsentFile /\ HasPrefixOnly(parts'[i], lang)
               /\ tailf' # AbsentFile => HasPrefixOnly(tailf', lang)
      ]_vars

\* C21: a convert call that is given a since_ts hint at or after the file's
\* mtime still processes a session file that holds bytes beyond last_offset,
\* a session without a cursor (last_offset = 0) included: afterwards a cursor
\* exists and its last_offset is the end of the last consumable line.
C21_HintNeverHidesBytes ==
    [][\A w \in Procs :
        (/\ IsConvertCall(w)
         /\ loc[w].last_sync # Null /\ sess.mtime <= loc[w].last_sync
         /\ Len(sess.bytes) > cstate.last_offset)
            => /\ cstate'.has
               /\ cstate'.last_offset = ConsumableEnd(sess.bytes)
      ]_vars

\* convert has already run over the session file as it is now
SecondPass ==
    /\ cstate.has
    /\ cstate.inode = sess.ino
    /\ cstate.last_offset = Len(sess.bytes)
    /\ cstate.last_mtime = sess.mtime

\* C22 (as stated): a sync cycle whose convert call finds the session file as
\* the previous call left it changes no part file, gets no path from convert,
\* and queues no path for memorize beyond those already pending.
C22_SecondPassNoop ==
    [][\A w \in Procs :
        (pc[w] = "convert" /\ pc'[w] = "save_merged" /\ SecondPass)
            => /\ parts' = parts
               /\ loc'[w].converted_paths = <<>>
               /\ Merge(loc[w].pending_paths \o loc'[w].converted_paths, <<>>)
                    = Merge(loc[w].pending_paths, <<>>)
      ]_vars

\* C22 (amended): when the previous cycle left the pending queue empty, the
\* language is the one in the cursor, the force flag is unset and no staged
\* tail has been idle for FLUSH_IDLE_SECONDS, a sync cycle over the unchanged
\* session file changes no part file and not the tail file, gets no path from
\* convert, and does not enter the ingest loop (no lookup, no memorize call).
C22_Idempotent ==
    [][/\ \A w \in Procs :
            (/\ pc[w] = "convert" /\ pc'[w] = "save_merged" /\ SecondPass
             /\ loc[w].pending_paths = <<>>
             /\ cstate.lang_prefix = lang
             /\ ~loc[w].force
             /\ (cstate.tail_part_messages = 0 \/ ~IdleElapsed))
                => /\ parts' = parts
                   /\ tailf' = tailf
                   /\ cstate'.part_count = cstate.part_count
                   /\ loc'[w].converted_paths = <<>>
       /\ \A w \in Procs :
            (/\ pc[w] = "check"
             /\ loc[w].pending_paths = <<>> /\ loc[w].converted_paths = <<>>)
                => /\ pc'[w] # "loop"
                   /\ db' = db
      ]_vars

\* a second cycle over an unchanged file with part 0 stored and message 3 staged
C22_Witness ==
    /\ pc[2] = "check"
    /\ pc[1] = "done"
    /\ loc[2].pending_paths = <<>> /\ loc[2].converted_paths = <<>>
    /\ SecondPass
    /\ cstate.part_count = 1 /\ cstate.tail_part_messages = 1
    /\ resource_exists(0)
    /\ loc[2].last_sync > 0

\* ceil(n / m)
CeilDiv(n, m) == (n + m - 1) \div m

\* a convert call that emits a part and leaves nothing staged and nothing
\* consumable unread: the flush that ends a conversion of the session file
FlushCall(w) ==
    /\ IsConvertCall(w)
    /\ loc'[w].converted_paths # <<>>
    /\ cstate'.has
    /\ cstate'.tail_part_messages = 0
    /\ tailf' = AbsentFile
    /\ cstate'.last_offset = ConsumableEnd(sess.bytes)

\* C23 (as stated): after a flush the session's part files are exactly the
\* ceil(N / max_messages) files below part_count, and their messages in index
\* order are the N accepted messages of the session file.
C23_RoundTripCeil ==
    [][\A w \in Procs : FlushCall(w) =>
        LET stream == MsgsUpTo(sess.bytes, cstate'.last_offset, 1)
        IN  /\ cstate'.part_count = CeilDiv(Len(stream), max_messages)
            /\ \A i \in PartIdx : (parts'[i] # AbsentFile) <=> (i < cstate'.part_count)
            /\ PartMsgs(parts', cstate'.part_count) = stream
      ]_vars

\* C23 (amended): after a flush the session's part files are exactly the
\* files below part_count, each holds between 1 and max_messages messages,
\* their messages in index order are the N accepted messages of the session
\* file, and their number is at least ceil(N / max_messages), with equality
\* when every part before the last holds max_messages messages.
C23_RoundTrip ==
    [][\A w \in Procs : FlushCall(w) =>
        LET stream == MsgsUpTo(sess.bytes, cstate'.last_offset, 1)
            n == cstate'.part_count
        IN  /\ \A i \in PartIdx : (parts'[i] # AbsentFile) <=> (i < n)
            /\ \A i \in PartIdx : i < n => Len(RoleMsgs(parts'[i])) \in 1..max_messages
            /\ PartMsgs(parts', n) = stream
            /\ n >= CeilDiv(Len(stream), max_messages)
            /\ (\A i \in PartIdx : i + 1 < n => Len(RoleMsgs(parts'[i])) = max_messages)
                    => n = CeilDiv(Len(stream), max_messages)
      ]_vars

\* three messages, one full part and the third message flushed after the
\* idle window, without the force flag
C23_Witness ==
    /\ pc[1] = "save_merged"
    /\ ~loc[1].force
    /\ loc[1].converted_paths = <<1>>
    /\ now - sess.mtime >= FLUSH_IDLE_SECONDS
    /\ CountNL(sess.bytes) = 3
    /\ cstate.part_count = 2 /\ cstate.tail_part_messages = 0
    /\ RoleMsgs(parts[0]) = <<Msg(1), Msg(2)>>
    /\ RoleMsgs(parts[1]) = <<Msg(3)>>
    /\ tailf = AbsentFile

\* C24: every mutable document is at every moment complete (the old content
\* or the new one, as after write-to-temp plus rename): the last_sync_ts file
\* and the tail file are never empty, the cursor, the pending queue and the
\* backoff document are whole.
C24_NoTornDocument ==
    /\ lastSyncFile # EmptyDoc
    /\ tailf # EmptyFile
    /\ cstate.has \in BOOLEAN
    /\ pendingFile \in Seq(PartIdx)
    /\ backoffFile.consecutive_rate_limits \in Nat

\* watcher w has acquired the singleton lock and not released it
WHolds(w) == wpc[w] \in {"w_write", "running"}

\* C25: at most one watcher process holds the watcher singleton lock at any
\* time, for every interleaving of watcher starts, stale-lock recoveries and
\* signals.
C25_WatcherSingleton ==
    \A v, w \in Procs : (WHolds(v) /\ WHolds(w)) => v = w

\* C26: a trigger less than debounce_seconds after the handler's last spawn
\* starts no worker; a trigger that finds the run-lock held by a live process
\* starts no worker and leaves last_run alone; two worker spawns of the
\* handler are at least debounce_seconds apart.
C26_Debounce ==
    [][\A t \in Threads :
        /\ (/\ thread[t] = "ts_debounce" /\ thread'[t] # thread[t]
            /\ now - handler.last_run < debounce_seconds)
                => (thread'[t] = "idle" /\ pc' = pc /\ handler' = handler)
        /\ (/\ thread[t] = "ts_runlock" /\ thread'[t] # thread[t]
            /\ lockf.exists /\ lockf.pid > 1 /\ Live(lockf.pid - 1))
                => (thread'[t] = "idle" /\ pc' = pc /\ handler' = handler)
        /\ (thread[t] = "ts_spawn" /\ thread'[t] = "ts_wait")
                => (handler.last_run = 0 \/ now - handler.last_run >= debounce_seconds)
      ]_vars

\* C27: the idle-flush poller calls trigger_sync only when the main session
\* file has been idle for at least FLUSH_IDLE_SECONDS and a staged tail file
\* with content exists, and at most once per distinct mtime of the session
\* file: the mtime it triggers for is newer than the one it triggered for
\* before, and is remembered.
PollTrigger ==
    /\ handler.phase = "observing"
    /\ thread["main"] = "idle"
    /\ thread'["main"] = "ts_debounce"

C27_IdlePoll ==
    [][/\ PollTrigger =>
            /\ now - sess.mtime >= FLUSH_IDLE_SECONDS
            /\ tailf # AbsentFile
            /\ tailf # EmptyFile
            /\ handler.last_idle_trigger_mtime < sess.mtime
            /\ handler'.last_idle_trigger_mtime = sess.mtime
       /\ handler'.last_idle_trigger_mtime >= handler.last_idle_trigger_mtime
       /\ sess'.mtime >= sess.mtime
      ]_vars

\* the poller triggered at a poll tick and its worker is running
C27_Witness ==
    /\ handler.phase = "observing"
    /\ thread["main"] = "ts_wait"
    /\ handler.last_idle_trigger_mtime = sess.mtime
    /\ handler.last_poll_tick = now
    /\ now - sess.mtime >= FLUSH_IDLE_SECONDS

\* a poll tick that did not trigger again for an mtime already triggered for
C27_Suppressed ==
    /\ handler.last_poll_tick = now
    /\ handler.last_poll_tick > flush_poll_seconds * 2
    /\ handler.last_idle_trigger_mtime = sess.mtime
    /\ tailf # AbsentFile
    /\ thread["main"] = "idle"

\* C28: a worker that acquired the run-lock releases it on every exit path of
\* sync_once (empty queue, active backoff, normal completion, an exception):
\* a worker whose sync_once returns or raises past the lock acquisition
\* leaves through the finally clause, and after it the lock file this worker
\* created does not exist.
Exits(w) == pc[w] \in BodyPcs /\ pc'[w] \in {"idle", "skipped", "done"}

C28_ReleaseOnExit ==
    [][\A w \in Procs :
        /\ Exits(w) =>
              /\ pc[w] = "release"
              /\ pc'[w] = "done"
              /\ ~(lockf'.exists /\ lockf'.owner = w)
        /\ (pc[w] \in RaisePcs /\ pc'[w] \notin (RaisePcs \cup {"dead"}))
              => pc'[w] = "release"
      ]_vars

\* the first worker left through an exception: it is done, nothing is queued,
\* no sync time was written, no backoff was armed, and the lock is gone
C28_Witness ==
    /\ pc[1] = "done"
    /\ pc[2] = "idle"
    /\ CountNL(sess.bytes) > 0
    /\ ~cstate.has
    /\ pendingFile = <<>>
    /\ lastSyncFile = 0
    /\ ~lockf.exists

\* C29: a run-lock left by a dead worker never blocks later workers: a worker
\* gives up the acquisition only while another worker is live (the holder or
\* a competitor), and a lock whose recorded pid is live is reported held and
\* not removed.
C29_StaleLockRecovered ==
    [][\A w \in Procs :
        /\ (pc[w] \in LockPcs /\ pc'[w] = "skipped")
              => \E v \in Procs \ {w} : Live(v)
        /\ (pc[w] = "lk_alive" /\ pc'[w] # pc[w] /\ _pid_alive(loc[w].readpid))
              => (pc'[w] = "skipped" /\ lockf' = lockf)
      ]_vars

\* the messages of the session file that lie beyond the cursor
Arrived ==
    Len(MsgsUpTo(sess.bytes, ConsumableEnd(sess.bytes), 1))
        - (IF cstate.has THEN Len(MsgsUpTo(sess.bytes, cstate.last_offset, 1)) ELSE 0)

\* C30: after every convert call tail_part_messages is below max_messages and
\* is the number of messages in the tail file, which is absent exactly when
\* the count is 0; a call that reads exactly max_messages new messages while
\* nothing is staged emits one part and leaves the tail empty and
\* tail_last_activity_ts null.
C30_TailCount ==
    [][\A w \in Procs : (IsConvertCall(w) /\ cstate'.has) =>
        /\ cstate'.tail_part_messages < max_messages
        /\ cstate'.tail_part_messages = Len(RoleMsgs(tailf'))
        /\ (tailf' = AbsentFile) <=> (cstate'.tail_part_messages = 0)
        /\ (/\ cstate.tail_part_messages = 0
            /\ tailf = AbsentFile
            /\ Arrived = max_messages
            /\ cstate'.last_offset = ConsumableEnd(sess.bytes))
              => /\ Len(loc'[w].converted_paths) = 1
                 /\ tailf' = AbsentFile
                 /\ cstate'.tail_part_messages = 0
                 /\ cstate'.tail_last_activity_ts = Null
      ]_vars

\* C31: loading the conversation state never fails: the result is a state at
\* the current version; a missing or unreadable file gives no cursors, a
\* stored version equal to the current one or to its predecessor gives the
\* stored cursors unchanged, any other version gives no cursors.
C31_LoadState ==
    loaded # NotLoaded =>
        /\ loaded.version = STATE_VERSION
        /\ loaded.sessions \in SessionsMaps
        /\ (stateDoc.kind # "object") => loaded.sessions = <<>>
        /\ (stateDoc.kind = "object"
                /\ stateDoc.version \in {STATE_VERSION, STATE_VERSION - 1})
              => loaded.sessions = stateDoc.sessions
        /\ (stateDoc.kind = "object"
                /\ stateDoc.version \notin {STATE_VERSION, STATE_VERSION - 1})
              => loaded.sessions = <<>>

\* a version 3 file with a cursor was loaded and the cursor kept
C31_Witness ==
    /\ stateDoc.kind = "object"
    /\ stateDoc.version = STATE_VERSION - 1
    /\ stateDoc.sessions # <<>>
    /\ loaded.version = STATE_VERSION
    /\ loaded.sessions = stateDoc.sessions

\* the file has only grown by complete lines since the call that wrote the
\* cursor: same inode, same language, the cursor at the end of the then
\* complete file, and the file complete now
OnlyAppended ==
    /\ cstate.has
    /\ cstate.inode = sess.ino
    /\ cstate.lang_prefix = lang
    /\ cstate.last_offset = cstate.last_size
    /\ Len(sess.bytes) > cstate.last_size
    /\ EndsComplete(SubSeq(sess.bytes, 1, cstate.last_size))
    /\ EndsComplete(sess.bytes)

\* C32: a convert call separated from the previous one only by appends of
\* complete lines takes the append-only path, whatever the size of the file:
\* no part below part_count is rewritten or deleted.
C32_AppendOnlyPath ==
    [][\A w \in Procs : (IsConvertCall(w) /\ OnlyAppended /\ cstate'.last_offset > cstate.last_offset) =>
        /\ AppendOnly(sess, cstate, lang)
        /\ \A i \in PartIdx : i < cstate.part_count => parts'[i] = parts[i]
      ]_vars

\* the watcher is at rest: no thread is in trigger_sync, no worker runs, no
\* event is queued
WatcherQuiet ==
    /\ handler.phase = "observing"
    /\ \A t \in Threads : thread[t] = "idle"
    /\ \A w \in Procs : ~Live(w)
    /\ events = 0

\* messages are staged and the session file has been idle for the window
StagedIdle ==
    /\ cstate.has
    /\ cstate.tail_part_messages > 0
    /\ tailf # AbsentFile
    /\ now - sess.mtime >= FLUSH_IDLE_SECONDS

\* C33: when the session file stops changing while messages are staged, the
\* running watcher eventually has the tail finalized and dispatched. As the
\* only trigger for an unchanged file is the poller, and the poller triggers
\* for an mtime it has not triggered for, this requires: whenever the watcher
\* is at rest with an idle staged tail, the poller has not yet used up the
\* trigger for the file's mtime.
C33_IdleTailNotStarved ==
    (WatcherQuiet /\ StagedIdle) => handler.last_idle_trigger_mtime # sess.mtime

\* C34: every accepted message ends up in a part whose content was passed to
\* Memorize: the ingest loop skips a path as "existing" only when the content
\* now stored at that path is the content that was memorized under it.
C34_SkipOnlyMemorized ==
    [][\A w \in Procs :
        (InLoop(w) /\ loc'[w].log = Append(loc[w].log, <<"skip existing", Cur(w)>>))
            => \E r \in db : r.url = Cur(w) /\ r.content = parts[Cur(w)]
      ]_vars

\* the paths the next cycle's convert call would return
NextConverted(force) ==
    convert(sess, cstate, parts, tailf, lang, force, now, _read_last_sync).converted

\* C35: at every restart point (no worker is running) each part file at an
\* index below part_count is in the pending queue, or is already memorized,
\* or is returned again by the next convert call.
C35_PartsOffered ==
    (\A w \in Procs : ~Live(w)) =>
        \A i \in PartIdx :
            (cstate.has /\ i < cstate.part_count /\ parts[i] # AbsentFile)
                => \/ InSeq(i, pendingFile)
                   \/ resource_exists(i)
                   \/ \E force \in BOOLEAN : InSeq(i, NextConverted(force))

\* C36: after any convert call, also one that follows a converter killed
\* between its file writes and its state write, the messages of the parts
\* below part_count followed by the messages of the tail file are the
\* messages of bytes [0, last_offset) of the session file, each once.
C36_StreamPreserved ==
    [][\A w \in Procs :
        (pc[w] = "state_save" /\ pc'[w] = "save_merged" /\ cstate'.has) =>
            PartMsgs(parts', cstate'.part_count) \o RoleMsgs(tailf')
                = MsgsUpTo(sess.bytes, cstate'.last_offset, 1)
      ]_vars

\* the same statement for convert calls that are never killed
C36_StreamPreservedNoCrash ==
    [][\A w \in Procs : (IsConvertCall(w) /\ cstate'.has) =>
            PartMsgs(parts', cstate'.part_count) \o RoleMsgs(tailf')
                = MsgsUpTo(sess.bytes, cstate'.last_offset, 1)
      ]_vars

\* C37: a lock file is removed only by the process that created it or by a
\* process that found its creator dead: no release and no stale-lock recovery
\* removes a lock file that another live process holds.
C37_RemoveOwnOrDead ==
    [][\A w \in Procs :
        (pc[w] \in {"lk_remove", "release"} /\ pc'[w] # pc[w]
            /\ lockf.exists /\ ~lockf'.exists)
            => (lockf.owner = w \/ ~Live(lockf.owner))
      ]_vars

\* C39: a cycle that ends its ingest loop with fail > 0 and without a
\* recognized rate limit leaves the backoff document as it loaded it;
\* consecutive_rate_limits returns to 0 only in a cycle with fail = 0 or with
\* an empty merged queue; nothing changes the document after that.
C39_BackoffFrame ==
    [][/\ \A w \in Procs :
            (pc[w] = "loop" /\ pc'[w] # "loop"
                /\ loc[w].fail > 0 /\ ~loc[w].saw_rate_limit)
                => /\ pc'[w] = "release"
                   /\ backoffFile' = loc[w].backoff
       /\ \A w \in Procs : pc[w] = "release" => backoffFile' = backoffFile
       /\ (backoffFile.consecutive_rate_limits > 0
                /\ backoffFile'.consecutive_rate_limits = 0)
            => \E w \in Procs :
                    /\ pc[w] = "clear_backoff"
                    /\ (loc[w].fail = 0 \/ loc[w].merged = <<>>)
      ]_vars

\* a cycle after an armed backoff failed without a rate limit: the armed
\* backoff is still on disk
C39_Witness ==
    \E w \in Procs :
        /\ pc[w] = "release"
        /\ loc[w].fail > 0
        /\ ~loc[w].saw_rate_limit
        /\ loc[w].backoff.consecutive_rate_limits > 0
        /\ backoffFile = loc[w].backoff

\* every complete line of the session file has been consumed
AllConsumed ==
    IF cstate.has THEN cstate.last_offset >= ConsumableEnd(sess.bytes)
    ELSE CountNL(sess.bytes) = 0

\* C38: while the watcher runs, every complete line appended to the session
\* file is eventually consumed by a convert run, even if no further write
\* follows. With no further write the only trigger left is the poller, which
\* needs a staged tail file and an mtime it has not triggered for, so this
\* requires: when a write event is dropped in trigger_sync (debounce, held
\* run-lock or trigger lock) and the watcher is then at rest with unconsumed
\* lines, the poller can still trigger.
C38_DroppedEventRecovered ==
    [][(/\ thread["observer"] \in {"ts_debounce", "ts_runlock", "ts_trylock"}
        /\ thread'["observer"] = "idle"
        /\ WatcherQuiet'
        /\ ~AllConsumed')
            => (tailf' # AbsentFile /\ handler'.last_idle_trigger_mtime # sess'.mtime)
      ]_vars


\* C40: the full-scan marker appears only at the end of a full-scan run of
\* the docs worker in which no Memorize call failed or timed out, so that
\* every markdown file of the scan was memorized or already existed
C40_MarkerAfterCleanScan ==
    [][(docs'.marker /\ ~docs.marker)
          => (docs.run.mode = "full-scan" /\ docs.run.fail = 0)]_vars

====
